---- MODULE Spec2Model ----
(***************************************************************************)
(* The resilience layer of cf-mail-bridge (src/src/retry-service.ts):      *)
(* RetryService.executeWithRetry, CircuitBreaker and EnhancedRetryService, *)
(* called by several requests that share one breaker instance              *)
(* (ResendEmailService.sendBulkEmails starts a batch of sends and awaits   *)
(* them together).                                                         *)
(*                                                                         *)
(* JavaScript runs each handler to its next await without interruption, so *)
(* one action is one such run: from the call to the first invocation of    *)
(* the operation, from the settling of the operation to the next await (a  *)
(* backoff delay) or to the return or throw of executeWithRetry, from the  *)
(* end of a delay to the next invocation, and, each in a later microtask,  *)
(* the resumption of CircuitBreaker.execute after its await and of the     *)
(* code that awaits the resilient call.                                    *)
(***************************************************************************)
EXTENDS Integers, Sequences, FiniteSets

\* ------------------------------------------------------------------ bounds

NumCallers == 2          \* requests in flight on the shared breaker
MaxTime == 4             \* the clock stops advancing here
MaxRetriesCfg == 2       \* maxRetries is configured in 0..MaxRetriesCfg
MaxThresholdCfg == 2     \* failureThreshold is configured in 1..MaxThresholdCfg
MaxSuccessCfg == 2       \* successThreshold is configured in 1..MaxSuccessCfg
RecoveryTimeoutCfg == 2  \* recoveryTimeout passed to the constructor
BaseDelayCfg == 1        \* RetryConfig.baseDelay of the mail service
MaxPasswordLen == 2      \* passwords are of 0..MaxPasswordLen bytes
NumSalts == 2            \* the salts getRandomValues may produce
MaxSubjectLen == 1       \* token subjects are of 0..MaxSubjectLen bytes
MaxDays == 1             \* tokens are generated and verified on days 0..MaxDays
MaxExcess == 1           \* validated strings are up to MaxExcess longer than
                         \* the longest string the validator accepts
MaxParts == 3            \* headers are of 1..MaxParts words
NumRequests == 2         \* HTTP requests handled concurrently
MaxDelayCfg == 3         \* RetryConfig.maxDelay of the mail service; baseDelay
                         \* and maxDelay are configured in 1..MaxDelayCfg
BackoffMultiplierCfg == 2 \* RetryConfig.backoffMultiplier of the mail service;
                         \* configured in 1..BackoffMultiplierCfg

Callers == 1..NumCallers

\* ------------------------------------------------------------------ errors

\* An error object, by the fields the code reads: name, message (as the set of
\* the marker substrings it contains, which is all that includes() asks of it),
\* status and the retryable flag. seq is the object's identity: the number of
\* the invocation, within its call, that threw it (0: thrown by no invocation).
NoError ==
    [seq |-> 0, name |-> "", message |-> {}, status |-> 0, retryable |-> FALSE]

\* new Error(`Circuit breaker is OPEN for ${context}`)
CircuitOpenError ==
    [seq |-> 0, name |-> "Error", message |-> {"Circuit breaker is OPEN"},
     status |-> 0, retryable |-> FALSE]

includes(message, sub) == sub \in message

\* The error of a Resend answer { data: null, error }, by the fields the code
\* reads: its name and its message. It has no status property (status 0).
\* A validation error ('validation_error: ...'), a rate-limit error whose
\* message does not say so ('Too many requests') and one whose message does
\* ('rate limit exceeded').
ResendErrors ==
    { [name |-> "validation_error", message |-> {"validation_error"},
       status |-> 0],
      [name |-> "rate_limit_exceeded", message |-> {}, status |-> 0],
      [name |-> "rate_limit_exceeded", message |-> {"rate limit"},
       status |-> 0] }

\* ResendEmailService.isRetryableError
isRetryableError(error) ==
    IF error.name = "NetworkError" \/ error.name = "TimeoutError" THEN TRUE
    ELSE IF includes(error.message, "rate limit") THEN TRUE
    ELSE IF error.status # 0 /\ error.status >= 500 THEN TRUE
    ELSE IF \/ includes(error.message, "rate_limit_exceeded")
            \/ includes(error.message, "temporary_failure")
            \/ includes(error.message, "server_error") THEN TRUE
    ELSE FALSE

\* The error the operation of ResendEmailService.sendEmail throws for the
\* error of a Resend answer: new Error(message) with retryable and status.
SendError(error) ==
    [name |-> "Error", message |-> error.message,
     status |-> IF error.name = "rate_limit_exceeded" THEN 429 ELSE 500,
     retryable |-> isRetryableError(error)]

\* What the operation of ResendEmailService.sendEmail throws: the errors it
\* makes of Resend's answers, and the error resend.emails.send rejects with
\* when the network fails.
SendErrors ==
    {SendError(error) : error \in ResendErrors}
    \cup
    { [name |-> "NetworkError", message |-> {}, status |-> 0, retryable |-> FALSE] }

\* Object.assign(new Error(''), { retryable: true }): an error that carries
\* the retryable flag and nothing else. The operation of sendEmail never
\* throws it (its errors have status 429 or 500); an operation that a caller
\* passes to executeEmailOperation or executeWithRetry itself may.
FlaggedError ==
    [name |-> "Error", message |-> {}, status |-> 0, retryable |-> TRUE]

\* What an invocation of the operation passed to executeEmailOperation,
\* executeEmailOperationWithRetry or executeWithRetry may throw.
ErrorShapes == SendErrors \cup {FlaggedError}

ErrorOf(shape, n) ==
    [seq |-> n, name |-> shape.name, message |-> shape.message,
     status |-> shape.status, retryable |-> shape.retryable]

\* RetryService.isEmailRetryableError
RetryServiceIsEmailRetryableError(error) ==
    IF error = NoError THEN FALSE
    ELSE IF error.name = "NetworkError" \/ error.name = "TimeoutError" THEN TRUE
    ELSE IF includes(error.message, "rate limit") THEN TRUE
    ELSE IF error.status # 0 /\ error.status >= 500 THEN TRUE
    ELSE IF \/ includes(error.message, "rate_limit_exceeded")
            \/ includes(error.message, "temporary_failure")
            \/ includes(error.message, "server_error")
            \/ includes(error.message, "timeout")
            \/ includes(error.message, "connection") THEN TRUE
    ELSE IF error.retryable = TRUE THEN TRUE
    ELSE FALSE

\* Mutant of EnhancedRetryService.isEmailRetryableError: client errors (4xx)
\* count as retryable too.
isEmailRetryableErrorFrom400(error) ==
    IF error = NoError THEN FALSE
    ELSE IF error.name = "NetworkError" \/ error.name = "TimeoutError" THEN TRUE
    ELSE IF includes(error.message, "rate limit") THEN TRUE
    ELSE IF error.status # 0 /\ error.status >= 400 THEN TRUE
    ELSE IF \/ includes(error.message, "rate_limit_exceeded")
            \/ includes(error.message, "temporary_failure")
            \/ includes(error.message, "server_error")
            \/ includes(error.message, "timeout")
            \/ includes(error.message, "connection") THEN TRUE
    ELSE FALSE

\* EnhancedRetryService.isEmailRetryableError
isEmailRetryableError(error) ==
    IF error = NoError THEN FALSE
    ELSE IF error.name = "NetworkError" \/ error.name = "TimeoutError" THEN TRUE
    ELSE IF includes(error.message, "rate limit") THEN TRUE
    ELSE IF error.status # 0 /\ error.status >= 500 THEN TRUE
    ELSE IF \/ includes(error.message, "rate_limit_exceeded")
            \/ includes(error.message, "temporary_failure")
            \/ includes(error.message, "server_error")
            \/ includes(error.message, "timeout")
            \/ includes(error.message, "connection") THEN TRUE
    ELSE FALSE

\* The shouldRetry argument of executeWithRetry: its default () => true, or one
\* of the two classifiers.
Policies == {"always", "retryService", "enhanced"}

shouldRetry(policy, error) ==
    CASE policy = "always" -> TRUE
      [] policy = "retryService" -> RetryServiceIsEmailRetryableError(error)
      [] OTHER -> isEmailRetryableError(error)

\* ------------------------------------------------------------------- state

VARIABLES
    maxRetries,        \* RetryService.config.maxRetries
    baseDelay,         \* RetryService.config.baseDelay
    maxDelay,          \* RetryService.config.maxDelay
    backoffMultiplier, \* RetryService.config.backoffMultiplier
    failureThreshold,  \* CircuitBreaker.failureThreshold
    successThreshold,  \* CircuitBreaker.successThreshold
    state,             \* CircuitBreaker.state
    failures,          \* CircuitBreaker.failures
    lastFailureTime,   \* CircuitBreaker.lastFailureTime
    now,               \* Date.now()
    call,              \* per caller: the call it is in, or the last one it made
    probes,            \* observation: the callers whose execute moved OPEN to
                       \* HALF_OPEN and whose call is still in flight
    streak,            \* observation: failed calls on the breaker since its last
                       \* successful call or reset
    fromClosed,        \* observation: the breaker was CLOSED when streak was
                       \* last 0
    credential,        \* the password hash last produced by hashPassword, with
                       \* the password and salt it was made from
    verification,      \* the last verifyPassword call and its result
    secret,            \* AuthService.secret, the bytes of jwtSecret
    issued,            \* the last generateToken call and the token it returned
    checked,           \* the last verifyToken call and its result
    validation,        \* the call made to a validator or to
                       \* extractTokenFromHeader, and what it returned
    users,             \* the rows of the users table, in id order; password
                       \* is an observation: the password the hash was made of
    request            \* per HTTP request: where its handler is, and its
                       \* response

vars ==
    <<maxRetries, baseDelay, maxDelay, backoffMultiplier, failureThreshold,
      successThreshold, state, failures, lastFailureTime, now, call, probes,
      streak, fromClosed, credential, verification, secret, issued, checked,
      validation, users, request>>

config ==
    <<maxRetries, baseDelay, maxDelay, backoffMultiplier, failureThreshold,
      successThreshold>>
breaker == <<state, failures, lastFailureTime>>
observed == <<probes, streak, fromClosed>>
authService == <<credential, verification, secret, issued, checked>>
http == <<validation, users, request>>
auth == <<authService, http>>
resilience == <<config, breaker, now, call, observed>>

\* No password has been hashed; no password has been verified.
NoCredential == [password |-> <<>>, salt |-> <<>>, hash |-> <<>>, set |-> FALSE]
NoVerification == [password |-> <<>>, hash |-> <<>>, result |-> FALSE, done |-> FALSE]

\* The secrets an AuthService is constructed with, as UTF-8 bytes.
Secrets == {<<107>>, <<108>>}

\* No token has been generated; no token has been verified. payload is
\* NoPayload where verifyToken returned null.
NoPayload == [sub |-> <<>>, iat |-> 0, exp |-> 0, null |-> TRUE]
NoToken == [sub |-> <<>>, at |-> 0, token |-> <<>>, set |-> FALSE]
NoCheck == [token |-> <<>>, at |-> 0, payload |-> NoPayload, done |-> FALSE]

\* The JavaScript values passed to and returned by the validators: null,
\* undefined, strings (their UTF-16 code units), numbers and arrays of
\* one-character strings. A string that is a member of ErrorCode is kept by
\* its name, in code.
JsNull == [type |-> "null", chars |-> <<>>, num |-> 0, code |-> ""]
JsUndefined == [type |-> "undefined", chars |-> <<>>, num |-> 0, code |-> ""]
JsString(chars) == [type |-> "string", chars |-> chars, num |-> 0, code |-> ""]
JsNumber(n) == [type |-> "number", chars |-> <<>>, num |-> n, code |-> ""]
JsArray(chars) == [type |-> "object", chars |-> chars, num |-> 0, code |-> ""]

\* No validator has been called.
NoValidation == [fn |-> "none", input |-> JsUndefined, result |-> JsUndefined]

\* The HTTP requests in flight, each handled by its own call of a handler.
Requests == 1..NumRequests

\* A response: its status, the code and message of its error, or its token.
NoResponse == [status |-> 0, code |-> "", message |-> "", token |-> <<>>]

\* The body of a request: ok is whether request.json() resolves.
NoBody == [ok |-> FALSE, username |-> JsUndefined, password |-> JsUndefined]

\* A request's record. pc: "idle" (not received), the await its handler is
\* suspended at ("hash", "insert", "find", "verify", "touch", "token"),
\* "done" (response returned) or "rejected" (fetch threw, no response).
\* route: the handler called, "fetch" when none was. hash: the
\* passwordHash local of handleRegister, or the password_hash of the row
\* handleLogin read. user: the id of the row created or read, 0 for none.
NoRequest ==
    [pc |-> "idle", route |-> "none", body |-> NoBody, hash |-> <<>>,
     user |-> 0, response |-> NoResponse]

\* A caller's record. pc: "idle" (no call in flight; outcome is that of its last
\* call), "operation" (awaiting the wrapped operation), "delay" (awaiting the
\* backoff timer), "breaker" (executeWithRetry has settled with outcome and
\* CircuitBreaker.execute, which awaits it, has not resumed yet), "caller"
\* (the resilient call has settled with outcome and the code that awaits it
\* has not resumed yet). kind: the entry point called. attempt, lastError: the locals
\* of executeWithRetry. Observations: invoked and failed, the invocations of
\* the wrapped operation in this call and how many of them threw; waits, the
\* delays awaited in this call; seen, the breaker's state when the call ended;
\* caught, the error the entry point's own catch block received.
NoOutcome == [type |-> "none", value |-> 0, error |-> NoError]
Returned(v) == [type |-> "returned", value |-> v, error |-> NoError]
Thrown(e) == [type |-> "thrown", value |-> 0, error |-> e]

\* The EmailSendResult { success: false, error: message, retryable: false }:
\* a returned value without a message id (value 0), whose error string and
\* retryable field are the message and retryable fields of error.
FailureResult(message) ==
    [type |-> "returned", value |-> 0,
     error |-> [seq |-> 0, name |-> "", message |-> message, status |-> 0,
                retryable |-> FALSE]]

\* new Error('Resend service not initialized. ...')
NotInitializedError ==
    [seq |-> 0, name |-> "Error", message |-> {"Resend service not initialized"},
     status |-> 0, retryable |-> FALSE]

IdleCall ==
    [pc |-> "idle", kind |-> "none", policy |-> "always", attempt |-> 0,
     lastError |-> NoError, wakeAt |-> 0, invoked |-> 0, failed |-> 0,
     waits |-> <<>>, asked |-> 0, seen |-> "none", caught |-> NoError,
     outcome |-> NoOutcome]

\* ------------------------------------------------------- pure computations

RECURSIVE Pow(_, _)
Pow(b, n) == IF n = 0 THEN 1 ELSE b * Pow(b, n - 1)

Min(a, b) == IF a < b THEN a ELSE b

\* Mutant of calculateDelay: the exponent is the 1-based attempt number.
calculateDelayNextExponent(attemptNumber) ==
    Min(baseDelay * Pow(backoffMultiplier, attemptNumber + 1), maxDelay)

\* RetryService.calculateDelay
calculateDelay(attemptNumber) ==
    Min(baseDelay * Pow(backoffMultiplier, attemptNumber), maxDelay)

\* Mutants of FastFail: recovery one time unit early; the boundary instant
\* recoveryTimeout still rejected.
FastFailRecoversEarly(st, lastFailure, t) ==
    st = "OPEN" /\ t - lastFailure < RecoveryTimeoutCfg - 1

FastFailAtBoundary(st, lastFailure, t) ==
    st = "OPEN" /\ t - lastFailure <= RecoveryTimeoutCfg

\* CircuitBreaker.execute's test on entry: the call is rejected.
FastFail(st, lastFailure, t) ==
    st = "OPEN" /\ t - lastFailure < RecoveryTimeoutCfg

\* Mutants of onSuccess: HALF_OPEN closes only under a successThreshold of 1;
\* the failure count survives a success.
onSuccessGated(st, f, lastFailure) ==
    <<IF st = "HALF_OPEN" /\ successThreshold <= 1 THEN "CLOSED" ELSE st,
      0, lastFailure>>

onSuccessKeepsCount(st, f, lastFailure) ==
    <<IF st = "HALF_OPEN" THEN "CLOSED" ELSE st, f, lastFailure>>

\* CircuitBreaker.onSuccess, as the new <<state, failures, lastFailureTime>>
onSuccess(st, f, lastFailure) ==
    <<IF st = "HALF_OPEN" THEN "CLOSED" ELSE st, 0, lastFailure>>

\* Mutant of onFailure: the breaker opens one failure late.
onFailureOpensLate(st, f, t, threshold) ==
    <<IF f + 1 > threshold THEN "OPEN" ELSE st, f + 1, t>>

\* Mutant of onFailure: a concurrent failure's increment is overwritten, the
\* count being written rather than incremented.
onFailureOverwrites(st, f, t, threshold) ==
    <<IF f + 1 >= threshold THEN "OPEN" ELSE st, 1, t>>

\* CircuitBreaker.onFailure, as the new <<state, failures, lastFailureTime>>
onFailure(st, f, t, threshold) ==
    <<IF f + 1 >= threshold THEN "OPEN" ELSE st, f + 1, t>>

\* Mutant of reset: lastFailureTime is kept.
resetKeepsTimestamp == <<"CLOSED", 0, lastFailureTime>>

\* CircuitBreaker.reset, as the new <<state, failures, lastFailureTime>>
reset == <<"CLOSED", 0, 0>>

\* -------------------------------------------------------------------- Init

Init ==
    /\ maxRetries \in 0..MaxRetriesCfg
    /\ baseDelay \in 1..MaxDelayCfg
    /\ maxDelay \in 1..MaxDelayCfg
    /\ backoffMultiplier \in 1..BackoffMultiplierCfg
    /\ failureThreshold \in 1..MaxThresholdCfg
    /\ successThreshold \in 1..MaxSuccessCfg
    /\ state = "CLOSED"
    /\ failures = 0
    /\ lastFailureTime = 0
    /\ now = 1
    /\ call = [c \in Callers |-> IdleCall]
    /\ probes = {}
    /\ streak = 0
    /\ fromClosed = TRUE
    /\ credential = NoCredential
    /\ verification = NoVerification
    /\ secret \in Secrets
    /\ issued = NoToken
    /\ checked = NoCheck
    /\ validation = NoValidation
    /\ users = <<>>
    /\ request = [r \in Requests |-> NoRequest]

\* The backoff configuration of the mail service's instance.
MailDelays ==
    /\ baseDelay = BaseDelayCfg
    /\ maxDelay = MaxDelayCfg
    /\ backoffMultiplier = BackoffMultiplierCfg

\* The mail path does not use AuthService: its secret is fixed.
OneSecret == secret = <<107>>

\* ----------------------------------------------------------------- actions

NewCall(k, p) == [IdleCall EXCEPT !.kind = k, !.policy = p]

\* const result = await operation(): the operation is invoked and awaited.
Invoke(r) == [r EXCEPT !.pc = "operation", !.invoked = @ + 1]

UsesBreaker(r) == r.kind \in {"execute", "email", "sendEmail"}

\* The entry points that wrap their work in try / catch.
Catches(r) == r.kind \in {"sendEmail", "emailWithRetry"}

\* Mutant of Settle: the result carries the caught error's retryable flag.
SettlePassesRetryable(r) ==
    IF Catches(r) /\ r.outcome.type = "thrown"
    THEN [r EXCEPT !.caught = r.outcome.error,
                   !.outcome = [FailureResult(r.outcome.error.message)
                                   EXCEPT !.error.retryable =
                                              r.outcome.error.retryable]]
    ELSE r

\* The catch block of EmailHandler.sendEmail and of
\* executeEmailOperationWithRetry: a thrown error becomes a returned result.
Settle(r) ==
    IF Catches(r) /\ r.outcome.type = "thrown"
    THEN [r EXCEPT !.caught = r.outcome.error,
                   !.outcome = FailureResult(r.outcome.error.message)]
    ELSE r

\* The entry points whose promise is awaited by code of the repository: by
\* executeEmailOperation (and, through ResendEmailService.sendEmail, by
\* EmailHandler.sendEmail), or by executeEmailOperationWithRetry.
Awaited(r) == r.kind \in {"email", "sendEmail", "emailWithRetry"}

\* The resilient call has settled with r.outcome: the code that awaits it
\* resumes in a later microtask; execute and executeWithRetry called directly
\* are over.
ToCaller(r) == [r EXCEPT !.pc = IF Awaited(r) THEN "caller" ELSE "idle"]

\* Mutant of BreakerEntry: a rejected call is recorded as a failure.
BreakerEntryCountsRejection(c, k, p) ==
    /\ call[c].pc = "idle"
    /\ IF FastFail(state, lastFailureTime, now)
       THEN /\ call' = [call EXCEPT ![c] =
                   ToCaller([NewCall(k, p) EXCEPT
                                 !.outcome = Thrown(CircuitOpenError)])]
            /\ failures' = failures + 1
            /\ lastFailureTime' = now
            /\ UNCHANGED <<state, probes>>
       ELSE /\ state' = IF state = "OPEN" THEN "HALF_OPEN" ELSE state
            /\ probes' = IF state = "OPEN" THEN probes \cup {c} ELSE probes
            /\ call' = [call EXCEPT ![c] = Invoke(NewCall(k, p))]
            /\ UNCHANGED <<failures, lastFailureTime>>
    /\ UNCHANGED <<config, auth, now, streak, fromClosed>>

\* CircuitBreaker.execute from its call to its await: the call is rejected, or
\* the operation k wraps is invoked (after OPEN has become HALF_OPEN).
BreakerEntry(c, k, p) ==
    /\ call[c].pc = "idle"
    /\ IF FastFail(state, lastFailureTime, now)
       THEN /\ call' = [call EXCEPT ![c] =
                   ToCaller([NewCall(k, p) EXCEPT
                                 !.outcome = Thrown(CircuitOpenError)])]
            /\ UNCHANGED <<state, probes>>
       ELSE /\ state' = IF state = "OPEN" THEN "HALF_OPEN" ELSE state
            /\ probes' = IF state = "OPEN" THEN probes \cup {c} ELSE probes
            /\ call' = [call EXCEPT ![c] = Invoke(NewCall(k, p))]
    /\ UNCHANGED <<config, auth, failures, lastFailureTime, now, streak, fromClosed>>

\* CircuitBreaker.execute(operation)
Execute(c) == BreakerEntry(c, "execute", "always")

\* EnhancedRetryService.executeEmailOperation(operation): the operation the
\* breaker runs is executeWithRetry(operation, isEmailRetryableError), which
\* invokes the operation before its first await.
ExecuteEmailOperation(c) == BreakerEntry(c, "email", "enhanced")

\* EmailHandler.sendEmail(options): ResendEmailService.sendEmail inside try /
\* catch. ensureInitialized throws before the resilience layer is entered
\* when the service has no API key; EmailHandler.sendEmail, awaiting, catches
\* the error when it resumes.
SendEmail(c, initialized) ==
    IF initialized
    THEN BreakerEntry(c, "sendEmail", "enhanced")
    ELSE /\ call[c].pc = "idle"
         /\ call' = [call EXCEPT ![c] =
                ToCaller([NewCall("sendEmail", "enhanced") EXCEPT
                              !.outcome = Thrown(NotInitializedError)])]
         /\ UNCHANGED <<config, auth, breaker, now, observed>>

\* The shouldRetry a direct caller passes: the default, or the classifier that
\* executeEmailOperationWithRetry passes.
RetryPolicies == {"always", "retryService"}

\* RetryService.executeWithRetry(operation, shouldRetry), called directly.
\* Its loop test holds on entry (attempt is 0 and maxRetries is not negative),
\* so the operation is invoked before the first await.
ExecuteWithRetry(c, p) ==
    /\ call[c].pc = "idle"
    /\ p \in RetryPolicies
    /\ call' = [call EXCEPT ![c] = Invoke(NewCall("retry", p))]
    /\ UNCHANGED <<config, auth, breaker, now, observed>>

\* RetryService.executeEmailOperationWithRetry(operation): executeWithRetry
\* with RetryService.isEmailRetryableError, inside try / catch.
ExecuteEmailOperationWithRetry(c) ==
    /\ call[c].pc = "idle"
    /\ call' = [call EXCEPT ![c] =
           Invoke(NewCall("emailWithRetry", "retryService"))]
    /\ UNCHANGED <<config, auth, breaker, now, observed>>

\* Mutant of BreakerAfter: the breaker counts every failed attempt of the call.
BreakerAfterCountsAttempts(r, ok) ==
    IF ~UsesBreaker(r) THEN <<state, failures, lastFailureTime>>
    ELSE IF ok THEN onSuccess(state, failures, lastFailureTime)
    ELSE onFailure(state, failures + r.failed - 1, now, failureThreshold)

\* Mutant of BreakerAfter: a call that ends on an error its classifier refuses
\* is not recorded by the breaker.
BreakerAfterSkipsFatal(r, ok) ==
    IF ~UsesBreaker(r) THEN <<state, failures, lastFailureTime>>
    ELSE IF ok THEN onSuccess(state, failures, lastFailureTime)
    ELSE IF ~shouldRetry(r.policy, r.outcome.error)
    THEN <<state, failures, lastFailureTime>>
    ELSE onFailure(state, failures, now, failureThreshold)

\* What CircuitBreaker.execute does to the breaker after its await: onSuccess
\* or onFailure; nothing for a call of executeWithRetry alone.
BreakerAfter(r, ok) ==
    IF ~UsesBreaker(r) THEN <<state, failures, lastFailureTime>>
    ELSE IF ok THEN onSuccess(state, failures, lastFailureTime)
    ELSE onFailure(state, failures, now, failureThreshold)

\* CircuitBreaker.execute resumes after `await operation()` with the outcome
\* of what it awaited (r.outcome): onSuccess and return, or onFailure and
\* throw. seen is the state it found.
AfterAwait(c, r, ok) ==
    LET b == BreakerAfter(r, ok)
    IN  /\ call' = [call EXCEPT ![c] = [ToCaller(r) EXCEPT !.seen = state]]
        /\ state' = b[1]
        /\ failures' = b[2]
        /\ lastFailureTime' = b[3]
        /\ probes' = probes \ {c}
        /\ streak' = IF ok THEN 0 ELSE streak + 1
        /\ fromClosed' = IF ok THEN b[1] = "CLOSED" ELSE fromClosed
        /\ UNCHANGED <<config, auth, now>>

\* The awaited operation has settled for the last time in this call, with
\* r.outcome. Under executeWithRetry the run ends with its return or throw,
\* its locals (attempt, lastError) ending with it: CircuitBreaker.execute, or
\* the caller, resumes in a later microtask. CircuitBreaker.execute on a plain
\* operation is what resumes.
Finish(c, r, ok) ==
    LET ended == [r EXCEPT !.attempt = 0, !.lastError = NoError, !.wakeAt = 0]
    IN  IF r.kind = "execute"
        THEN AfterAwait(c, ended, ok)
        ELSE /\ call' = [call EXCEPT ![c] =
                    IF UsesBreaker(r) THEN [ended EXCEPT !.pc = "breaker"]
                    ELSE ToCaller(ended)]
             /\ UNCHANGED <<config, auth, breaker, now, observed>>

\* CircuitBreaker.execute, awaiting executeWithRetry, resumes.
ExecuteResumes(c) ==
    /\ call[c].pc = "breaker"
    /\ AfterAwait(c, call[c], call[c].outcome.type = "returned")

\* The code that awaits the resilient call resumes: executeEmailOperation
\* passes the result or the error on, EmailHandler.sendEmail and
\* executeEmailOperationWithRetry return the result or, in their catch block,
\* the failure result.
CallerResumes(c) ==
    /\ call[c].pc = "caller"
    /\ call' = [call EXCEPT ![c] = [Settle(call[c]) EXCEPT !.pc = "idle"]]
    /\ UNCHANGED <<config, auth, breaker, now, observed>>

\* The awaited operation resolves: executeWithRetry returns its result;
\* execute on a plain operation calls onSuccess and returns it.
OperationSucceeds(c) ==
    /\ call[c].pc = "operation"
    /\ Finish(c, [call[c] EXCEPT !.outcome = Returned(call[c].invoked)], TRUE)

\* Mutant of LoopContinues: the loop ends one attempt early.
LoopContinuesStrict(attempt, max) == attempt < max

\* while (attempt <= this.config.maxRetries!)
LoopContinues(attempt, max) == attempt <= max

\* Mutant of Exhausted: the retries count as exhausted one attempt early.
ExhaustedEarly(attempt, max) == attempt >= max

\* if (attempt > this.config.maxRetries!) break;
Exhausted(attempt, max) == attempt > max

\* Mutant of RetryCatch: attempt is never incremented, so neither the
\* exhaustion test nor the loop test ever ends the loop.
RetryCatchNeverCounts(r, error, max, t) ==
    LET r1 == [r EXCEPT !.lastError = error]
        r2 == IF Exhausted(r1.attempt, max) THEN r1
              ELSE [r1 EXCEPT !.asked = @ + 1]
    IN  IF Exhausted(r1.attempt, max) \/ ~shouldRetry(r1.policy, error)
        THEN [r2 EXCEPT !.outcome = Thrown(r1.lastError)]
        ELSE LET delay == calculateDelay(r1.attempt)
             IN  [r2 EXCEPT !.pc = "delay", !.wakeAt = t + delay,
                            !.waits = Append(@, delay)]

\* Mutant of RetryCatch: the shouldRetry verdict is not consulted, so only
\* exhaustion ends the loop.
RetryCatchIgnoresShouldRetry(r, error, max, t) ==
    LET r1 == [r EXCEPT !.lastError = error, !.attempt = @ + 1]
    IN  IF Exhausted(r1.attempt, max)
        THEN [r1 EXCEPT !.outcome = Thrown(r1.lastError)]
        ELSE LET delay == calculateDelay(r1.attempt - 1)
             IN  [r1 EXCEPT !.pc = "delay", !.wakeAt = t + delay,
                            !.waits = Append(@, delay)]

\* Mutant of RetryCatch: the exhaustion test comes one attempt late, so the
\* last error is classified and waited on before the loop test ends the call.
RetryCatchExhaustedLate(r, error, max, t) ==
    LET r1 == [r EXCEPT !.lastError = error, !.attempt = @ + 1]
        r2 == IF Exhausted(r1.attempt, max + 1) THEN r1
              ELSE [r1 EXCEPT !.asked = @ + 1]
    IN  IF Exhausted(r1.attempt, max + 1) \/ ~shouldRetry(r1.policy, error)
        THEN [r2 EXCEPT !.outcome = Thrown(r1.lastError)]
        ELSE LET delay == calculateDelay(r1.attempt - 1)
             IN  [r2 EXCEPT !.pc = "delay", !.wakeAt = t + delay,
                            !.waits = Append(@, delay)]

\* executeWithRetry's catch block: the call's record after it, awaiting the
\* backoff delay or, after a break, having thrown lastError. shouldRetry is
\* called (asked) only when the exhaustion test has not ended the loop.
RetryCatch(r, error, max, t) ==
    LET r1 == [r EXCEPT !.lastError = error, !.attempt = @ + 1]
        r2 == IF Exhausted(r1.attempt, max) THEN r1
              ELSE [r1 EXCEPT !.asked = @ + 1]
    IN  IF Exhausted(r1.attempt, max) \/ ~shouldRetry(r1.policy, error)
        THEN [r2 EXCEPT !.outcome = Thrown(r1.lastError)]
        ELSE LET delay == calculateDelay(r1.attempt - 1)
             IN  [r2 EXCEPT !.pc = "delay", !.wakeAt = t + delay,
                            !.waits = Append(@, delay)]

\* The awaited operation rejects with an error of the given shape, one of
\* SendErrors when the operation is that of ResendEmailService.sendEmail:
\* executeWithRetry's catch block runs, up to the backoff delay or the throw;
\* execute on a plain operation calls onFailure and throws the error.
OperationFails(c, shape) ==
    /\ call[c].pc = "operation"
    /\ (call[c].kind = "sendEmail" => shape \in SendErrors)
    /\ LET r == call[c]
           error == ErrorOf(shape, r.invoked)
           r0 == [r EXCEPT !.failed = @ + 1]
       IN  IF r.kind = "execute"
           THEN Finish(c, [r0 EXCEPT !.outcome = Thrown(error)], FALSE)
           ELSE LET r1 == RetryCatch(r0, error, maxRetries, now)
                IN  IF r1.pc = "delay"
                    THEN /\ call' = [call EXCEPT ![c] = r1]
                         /\ UNCHANGED <<config, auth, breaker, now, observed>>
                    ELSE Finish(c, r1, FALSE)

\* The backoff timer fires: the while loop tests attempt <= maxRetries and
\* invokes the operation again.
DelayElapses(c) ==
    /\ call[c].pc = "delay"
    /\ now >= call[c].wakeAt
    /\ LET r == call[c]
       IN  IF LoopContinues(r.attempt, maxRetries)
           THEN /\ call' = [call EXCEPT ![c] = [Invoke(r) EXCEPT !.wakeAt = 0]]
                /\ UNCHANGED <<config, auth, breaker, now, observed>>
           ELSE Finish(c, [r EXCEPT !.outcome = Thrown(r.lastError)], FALSE)

\* CircuitBreaker.reset() (EnhancedRetryService.reset() calls it)
Reset ==
    /\ state' = reset[1]
    /\ failures' = reset[2]
    /\ lastFailureTime' = reset[3]
    /\ probes' = {}
    /\ streak' = 0
    /\ fromClosed' = (reset[1] = "CLOSED")
    /\ UNCHANGED <<config, auth, now, call>>

\* Time passes.
Tick ==
    /\ now < MaxTime
    /\ now' = now + 1
    /\ UNCHANGED <<config, auth, breaker, call, observed>>

\* The calls settle, the timers fire and time passes.
Progress ==
    \/ \E c \in Callers : OperationSucceeds(c)
    \/ \E c \in Callers, shape \in ErrorShapes : OperationFails(c, shape)
    \/ \E c \in Callers : DelayElapses(c)
    \/ Tick

\* Requests that send through EnhancedRetryService.executeEmailOperation, as
\* ResendEmailService does. successThreshold, which no code reads, is fixed.
InitEmail == Init /\ MailDelays /\ OneSecret /\ successThreshold = MaxSuccessCfg

\* The awaiting code resumes.
Resumes ==
    \/ \E c \in Callers : ExecuteResumes(c)
    \/ \E c \in Callers : CallerResumes(c)

Next ==
    \/ \E c \in Callers : ExecuteEmailOperation(c)
    \/ Progress
    \/ Resumes
    \/ Reset

Spec == InitEmail /\ [][Next]_vars

\* Requests that call CircuitBreaker.execute on a plain operation: no retry
\* loop runs, so maxRetries is never read and is fixed.
InitBreaker == Init /\ MailDelays /\ OneSecret /\ maxRetries = 0

NextBreaker ==
    \/ \E c \in Callers : Execute(c)
    \/ \E c \in Callers : OperationSucceeds(c)
    \/ \E c \in Callers, shape \in ErrorShapes : OperationFails(c, shape)
    \/ Reset
    \/ Tick

SpecBreaker == InitBreaker /\ [][NextBreaker]_vars

\* Requests that call RetryService.executeWithRetry directly: the breaker is
\* not involved, and its configuration is fixed.
InitRetry ==
    /\ Init
    /\ MailDelays
    /\ OneSecret
    /\ failureThreshold = MaxThresholdCfg
    /\ successThreshold = MaxSuccessCfg

\* One request calling executeWithRetry under every backoff configuration.
InitDelay ==
    /\ Init
    /\ OneSecret
    /\ failureThreshold = MaxThresholdCfg
    /\ successThreshold = MaxSuccessCfg

NextDelay ==
    \/ \E p \in RetryPolicies : ExecuteWithRetry(1, p)
    \/ Progress

SpecDelay == InitDelay /\ [][NextDelay]_vars

NextRetry ==
    \/ \E c \in Callers, p \in RetryPolicies : ExecuteWithRetry(c, p)
    \/ Progress

SpecRetry == InitRetry /\ [][NextRetry]_vars

\* A request at a time that sends through EmailHandler.sendEmail, and the
\* other requests calling RetryService.executeEmailOperationWithRetry on a
\* RetryService of their own.
InitSend ==
    /\ Init
    /\ MailDelays
    /\ OneSecret
    /\ failureThreshold = MaxThresholdCfg
    /\ successThreshold = MaxSuccessCfg

NextSend ==
    \/ \E initialized \in BOOLEAN : SendEmail(1, initialized)
    \/ \E c \in Callers \ {1} : ExecuteEmailOperationWithRetry(c)
    \/ Progress
    \/ Resumes

SpecSend == InitSend /\ [][NextSend]_vars

\* Calls that run to their end, one request at a time. Requests arrive while
\* the clock is below MaxTime; after that the clock advances only as long as a backoff timer is
\* pending. Every awaited operation settles and every timer that is due fires.
TickLive ==
    /\ \/ now < MaxTime
       \/ \E c \in Callers : call[c].pc = "delay" /\ call[c].wakeAt > now
    /\ now' = now + 1
    /\ UNCHANGED <<config, auth, breaker, call, observed>>

Arrives(c) ==
    /\ now < MaxTime
    /\ \/ ExecuteEmailOperation(c)
       \/ \E p \in RetryPolicies : ExecuteWithRetry(c, p)

Settles(c) ==
    \/ OperationSucceeds(c)
    \/ \E shape \in ErrorShapes : OperationFails(c, shape)
    \/ ExecuteResumes(c)
    \/ CallerResumes(c)

NextLive ==
    \/ Arrives(1)
    \/ \E c \in Callers : Settles(c)
    \/ \E c \in Callers : DelayElapses(c)
    \/ TickLive

Fairness ==
    /\ \A c \in Callers : WF_vars(Settles(c)) /\ WF_vars(DelayElapses(c))
    /\ WF_vars(TickLive)

SpecLive == InitRetry /\ [][NextLive]_vars /\ Fairness

\* All three entry points on one service.
NextAll ==
    \/ \E c \in Callers : Execute(c)
    \/ \E c \in Callers, p \in RetryPolicies : ExecuteWithRetry(c, p)
    \/ Next

InitAll == Init /\ MailDelays /\ OneSecret

SpecAll == InitAll /\ [][NextAll]_vars

\* --------------------------------------------------- AuthService: passwords

\* Byte arrays are sequences over 0..255. A password is the UTF-8 encoding of
\* the string (TextEncoder.encode): here NUL, "a" and "b".
PasswordBytes == {0, 97, 98}
Passwords == UNION {[1..n -> PasswordBytes] : n \in 0..MaxPasswordLen}

SaltBytes == 16      \* new Uint8Array(16)
KeyBytes == 32       \* deriveBits(..., 256)
BlockBytes == 64     \* block size of HMAC-SHA-256, the PRF of PBKDF2

\* crypto.getRandomValues(new Uint8Array(16))
Salts == {[i \in 1..SaltBytes |-> (i * m) % 256] : m \in 1..NumSalts}

\* The key HMAC computes with: the password, zero-padded to the block size
\* (passwords here are shorter than a block, so none is hashed first).
hmacKey(password) ==
    [i \in 1..BlockBytes |-> IF i <= Len(password) THEN password[i] ELSE 0]

\* crypto.subtle.deriveBits(PBKDF2, SHA-256, 100000 iterations): the derived
\* key depends on the password through its HMAC key only and on the salt. The
\* bytes are a stand-in for the iterated hash that keeps it collision-free:
\* different (HMAC key, salt) pairs of the model give different keys.
pbkdf2(password, salt) ==
    LET padded == hmacKey(password)
    IN  [i \in 1..KeyBytes |->
            (padded[i]
               + (IF salt = <<>> THEN 0 ELSE 31 * salt[((i - 1) % Len(salt)) + 1])
               + i) % 256]

\* A base64 string is the sequence of its characters: 0..63 for the alphabet,
\* PadChar for "=", WhitespaceChar for an ASCII whitespace character (tab,
\* line feed, form feed, carriage return, space), OtherChar for any other
\* character outside the alphabet.
PadChar == 64
OtherChar == 65
WhitespaceChar == 66

\* The k-th (0-based) group of 6 bits of a byte array, zero-filled at the end.
Sextet(bytes, k) ==
    LET j == (6 * k) \div 8
        o == (6 * k) % 8
        lo == IF j + 2 <= Len(bytes) THEN bytes[j + 2] ELSE 0
        shift == <<1, 2, 4, 8, 16, 32, 64, 128, 256, 512, 1024>>[11 - o]
    IN  ((bytes[j + 1] * 256 + lo) \div shift) % 64

\* btoa(String.fromCharCode(...bytes))
btoa(bytes) ==
    LET n == Len(bytes)
    IN  [k \in 1..(4 * ((n + 2) \div 3)) |->
            IF k <= (8 * n + 5) \div 6 THEN Sextet(bytes, k - 1) ELSE PadChar]

NotWhitespace(char) == char # WhitespaceChar

\* atob(string), the forgiving base64 decoder: ASCII whitespace is removed;
\* up to two "=" are dropped from the end of what is left if its length is a
\* multiple of 4; the rest must be alphabet characters, not 1 modulo 4 in
\* number; leftover bits are dropped. ok is FALSE where atob throws.
atob(string) ==
    LET stripped == SelectSeq(string, NotWhitespace)
        n == Len(stripped)
        pads == IF n % 4 # 0 \/ n = 0 \/ stripped[n] # PadChar THEN 0
                ELSE IF stripped[n - 1] = PadChar THEN 2 ELSE 1
        data == SubSeq(stripped, 1, n - pads)
        ok == Len(data) % 4 # 1 /\ \A i \in 1..Len(data) : data[i] \in 0..63
    IN  [ok |-> ok,
         bytes |-> IF ~ok THEN <<>>
                   ELSE [i \in 1..((6 * Len(data)) \div 8) |->
                           LET j == (8 * (i - 1)) \div 6
                               o == (8 * (i - 1)) % 6
                               shift == <<1, 2, 4, 8, 16>>[5 - o]
                           IN  ((data[j + 1] * 64 + data[j + 2])
                                   \div shift) % 256]]

\* Uint8Array.slice(from) and slice(0, to)
sliceFrom(bytes, from) == SubSeq(bytes, from + 1, Len(bytes))
sliceTo(bytes, to) == SubSeq(bytes, 1, Min(to, Len(bytes)))

\* AuthService.compareArrays: the lengths, then the OR of the XORs of the
\* bytes, which is 0 exactly when no pair of bytes differs.
compareArrays(a, b) ==
    IF Len(a) # Len(b) THEN FALSE
    ELSE \A i \in 1..Len(a) : a[i] = b[i]

\* AuthService.hashPassword(password), with the salt it drew
hashPassword(password, salt) == btoa(salt \o pbkdf2(password, salt))

\* AuthService.verifyPassword(password, hashedPassword)
verifyPassword(password, hashedPassword) ==
    LET decoded == atob(hashedPassword)
    IN  IF ~decoded.ok THEN FALSE
        ELSE LET combined == decoded.bytes
                 salt == sliceTo(combined, SaltBytes)
                 storedHash == sliceFrom(combined, SaltBytes)
                 derivedHash == pbkdf2(password, salt)
             IN  compareArrays(storedHash, derivedHash)

\* The strings a caller may pass as hashedPassword, made from the stored hash:
\* the hash itself; the empty string; the hash with a character outside the
\* alphabet; strings that decode to 45, 47, 15 and 51 bytes; "=" signs where
\* none belong; a well-formed hash whose last key byte differs; and the hash
\* with whitespace before it or inside it.
CandidateKinds ==
    {"stored", "empty", "otherChar", "bytes45", "bytes47", "bytes15", "bytes51",
     "padded", "otherKey", "spaceBefore", "spaceInside"}

Candidate(hash, kind) ==
    CASE kind = "stored" -> hash
      [] kind = "empty" -> <<>>
      [] kind = "otherChar" -> [hash EXCEPT ![1] = OtherChar]
      [] kind = "bytes45" -> SubSeq(hash, 1, Len(hash) - 4)
      [] kind = "bytes47" -> SubSeq(hash, 1, Len(hash) - 1)
      [] kind = "bytes15" -> SubSeq(hash, 1, 20)
      [] kind = "bytes51" -> hash \o <<0, 0, 0, 0>>
      [] kind = "padded" -> hash \o <<PadChar, PadChar>>
      [] kind = "spaceBefore" -> <<WhitespaceChar>> \o hash
      [] kind = "spaceInside" ->
             SubSeq(hash, 1, 1) \o <<WhitespaceChar>> \o SubSeq(hash, 2, Len(hash))
      [] OTHER -> [hash EXCEPT ![Len(hash)] = (@ + 1) % 64]

\* hashPassword(password) is called and its result stored.
HashPassword(password, salt) ==
    /\ credential' = [password |-> password, salt |-> salt,
                      hash |-> hashPassword(password, salt), set |-> TRUE]
    /\ verification' = NoVerification
    /\ UNCHANGED <<secret, issued, checked, resilience, http>>

\* verifyPassword(password, hashedPassword) is called, hashedPassword being a
\* string of the given kind.
VerifyPassword(password, kind) ==
    /\ credential.set
    /\ LET hashedPassword == Candidate(credential.hash, kind)
       IN  verification' =
               [password |-> password, hash |-> hashedPassword,
                result |-> verifyPassword(password, hashedPassword),
                done |-> TRUE]
    /\ UNCHANGED <<credential, secret, issued, checked, resilience, http>>

\* The password functions of AuthService on their own: the resilience layer
\* is at rest in one configuration.
AtRest ==
    /\ Init
    /\ MailDelays
    /\ maxRetries = MaxRetriesCfg
    /\ failureThreshold = MaxThresholdCfg
    /\ successThreshold = MaxSuccessCfg

NextPassword ==
    \/ \E password \in Passwords, salt \in Salts : HashPassword(password, salt)
    \/ \E password \in Passwords, kind \in CandidateKinds :
          VerifyPassword(password, kind)

InitPassword == AtRest /\ OneSecret

SpecPassword == InitPassword /\ [][NextPassword]_vars

\* ------------------------------------------------------ AuthService: tokens

TokenLifetime == 86400   \* 24 * 60 * 60
MsPerSecond == 1000      \* Math.floor(Date.now() / 1000)
DotChar == 66            \* ".", the separator of a token's segments

\* A subject is the UTF-8 encoding of the username: here "a", the double
\* quote and the backslash.
SubjectBytes == {97, 34, 92}
Subjects == UNION {[1..n -> SubjectBytes] : n \in 0..MaxSubjectLen}

\* The decimal digits of a number, as JSON.stringify writes them.
RECURSIVE digits(_)
digits(n) ==
    IF n < 10 THEN <<48 + n>> ELSE digits(n \div 10) \o <<48 + (n % 10)>>

\* The characters of a JSON string: quote and backslash are escaped.
RECURSIVE escape(_)
escape(str) ==
    IF str = <<>> THEN <<>>
    ELSE (IF Head(str) \in {34, 92} THEN <<92, Head(str)>> ELSE <<Head(str)>>)
             \o escape(Tail(str))

\* JSON.stringify({ sub, iat, exp })
stringify(payload) ==
    <<123, 34, 115, 117, 98, 34, 58, 34>> \o escape(payload.sub)
        \o <<34, 44, 34, 105, 97, 116, 34, 58>> \o digits(payload.iat)
        \o <<44, 34, 101, 120, 112, 34, 58>> \o digits(payload.exp)
        \o <<125>>

\* JSON.stringify({ alg: 'HS256' })
HeaderJson == <<123, 34, 97, 108, 103, 34, 58, 34, 72, 83, 50, 53, 54, 34, 125>>

\* The base64url encoding of jose: the alphabet differs from base64's in the
\* two characters 62 and 63 only, and no padding is written. Its decoder
\* accepts both alphabets and decodes as atob does.
base64url(bytes) == SubSeq(btoa(bytes), 1, (8 * Len(bytes) + 5) \div 6)

\* The stand-in for SHA-256 keeps two running values, each with its own
\* multipliers and its own prime modulus, and works on blocks of 16 bytes.
Lanes ==
    << [inner |-> 251, outer |-> 239, prime |-> 8388593],
       [inner |-> 241, outer |-> 233, prime |-> 8388587] >>

\* The value of the first n bytes of the k-th block in a lane: each byte is
\* mixed into the value by a multiplication modulo the prime, so that a change
\* of one byte always changes the value.
RECURSIVE blockValue(_, _, _, _)
blockValue(bytes, k, n, lane) ==
    IF n = 0 THEN k
    ELSE (blockValue(bytes, k, n - 1, lane) * lane.inner
            + bytes[16 * (k - 1) + n] + 1) % lane.prime

\* The running value of a lane after the first k blocks, from the value it
\* starts with. The blocks are combined with a multiplier other than the one
\* of the bytes, so that no two positions of a text weigh the same.
RECURSIVE absorb(_, _, _, _)
absorb(bytes, k, value, lane) ==
    IF k = 0 THEN value
    ELSE (absorb(bytes, k - 1, value, lane) * lane.outer
            + blockValue(bytes, k, Min(16, Len(bytes) - 16 * (k - 1)), lane))
             % lane.prime

\* The running value of a lane taken through the key block and then through
\* the data.
digest(key, data, lane) ==
    absorb(data, (Len(data) + 15) \div 16,
           absorb(hmacKey(key), BlockBytes \div 16, 1, lane), lane)

\* The 32 bytes of the two lanes' values: the first lane's in bytes 1 to 3,
\* the second's in bytes 4 to 6, and multiples of the two in the others.
digestBytes(first, second) ==
    [i \in 1..KeyBytes |->
        IF i <= 3 THEN (first \div Pow(256, i - 1)) % 256
        ELSE IF i <= 6 THEN (second \div Pow(256, i - 4)) % 256
        ELSE (((IF i % 2 = 0 THEN first ELSE second) * i + i) % 8388593) % 256]

\* HMAC-SHA-256 of data under the secret: 32 bytes that depend on the secret
\* through its HMAC key only. The bytes are a stand-in for the hash;
\* different (HMAC key, data) give different bytes on the keys and texts of
\* the model.
hmacSha256(key, data) ==
    digestBytes(digest(key, data, Lanes[1]), digest(key, data, Lanes[2]))

\* token.split('.')
RECURSIVE split(_)
split(str) ==
    LET dots == {i \in 1..Len(str) : str[i] = DotChar}
    IN  IF dots = {} THEN <<str>>
        ELSE LET d == CHOOSE i \in dots : \A j \in dots : i <= j
             IN  <<SubSeq(str, 1, d - 1)>> \o split(SubSeq(str, d + 1, Len(str)))

\* The bytes at position i are those of lit.
expect(bytes, i, lit) ==
    /\ i + Len(lit) - 1 <= Len(bytes)
    /\ SubSeq(bytes, i, i + Len(lit) - 1) = lit

\* The JSON string whose characters start at position i, up to its closing
\* quote: its value and the position after the quote.
RECURSIVE readString(_, _)
readString(bytes, i) ==
    IF i > Len(bytes) THEN [ok |-> FALSE, value |-> <<>>, next |-> i]
    ELSE IF bytes[i] = 34 THEN [ok |-> TRUE, value |-> <<>>, next |-> i + 1]
    ELSE LET escaped == bytes[i] = 92
             at == IF escaped THEN i + 1 ELSE i
         IN  IF at > Len(bytes) \/ (escaped /\ bytes[at] \notin {34, 92})
             THEN [ok |-> FALSE, value |-> <<>>, next |-> i]
             ELSE LET rest == readString(bytes, at + 1)
                  IN  [rest EXCEPT !.value = <<bytes[at]>> \o @]

\* The JSON number that starts at position i: its value and the position
\* after its last digit.
RECURSIVE readDigits(_, _, _)
readDigits(bytes, i, value) ==
    IF i > Len(bytes) \/ bytes[i] \notin 48..57 THEN [value |-> value, next |-> i]
    ELSE readDigits(bytes, i + 1, 10 * value + (bytes[i] - 48))

readNumber(bytes, i) ==
    LET read == readDigits(bytes, i, 0)
    IN  [ok |-> read.next > i, value |-> read.value, next |-> read.next]

\* JSON.parse of a token's payload, for the objects stringify writes; NoPayload
\* for any other text.
parsePayload(bytes) ==
    LET subKey == <<123, 34, 115, 117, 98, 34, 58, 34>>
        iatKey == <<44, 34, 105, 97, 116, 34, 58>>
        expKey == <<44, 34, 101, 120, 112, 34, 58>>
        sub == readString(bytes, Len(subKey) + 1)
        iat == readNumber(bytes, sub.next + Len(iatKey))
        exp == readNumber(bytes, iat.next + Len(expKey))
    IN  IF ~expect(bytes, 1, subKey) \/ ~sub.ok THEN NoPayload
        ELSE IF ~expect(bytes, sub.next, iatKey) \/ ~iat.ok THEN NoPayload
        ELSE IF ~expect(bytes, iat.next, expKey) \/ ~exp.ok THEN NoPayload
        ELSE IF ~expect(bytes, exp.next, <<125>>) \/ exp.next # Len(bytes)
        THEN NoPayload
        ELSE [sub |-> sub.value, iat |-> iat.value, exp |-> exp.value,
              null |-> FALSE]

\* Mutant of generateToken: Date.now() is not divided, so the claims are in
\* milliseconds.
generateTokenMsClock(username, key, nowMs) ==
    LET payload == [sub |-> username, iat |-> nowMs,
                    exp |-> nowMs + TokenLifetime]
        signed == base64url(HeaderJson) \o <<DotChar>>
                      \o base64url(stringify(payload))
    IN  signed \o <<DotChar>> \o base64url(hmacSha256(key, signed))

\* AuthService.generateToken(username) at Date.now() = nowMs
generateToken(username, key, nowMs) ==
    LET nowSeconds == nowMs \div MsPerSecond
        payload == [sub |-> username, iat |-> nowSeconds,
                    exp |-> nowSeconds + TokenLifetime]
        signed == base64url(HeaderJson) \o <<DotChar>>
                      \o base64url(stringify(payload))
    IN  signed \o <<DotChar>> \o base64url(hmacSha256(key, signed))

\* AuthService.verifyToken(token) at Date.now() = nowMs: jwtVerify throws, and
\* verifyToken returns null, unless the token has three segments, its header
\* is that of HS256, its signature is the HMAC of the first two segments under
\* the secret, its payload parses and its exp is later than the current second.
verifyToken(token, key, nowMs) ==
    LET parts == split(token)
    IN  IF Len(parts) # 3 THEN NoPayload
        ELSE LET header == atob(parts[1])
                 body == atob(parts[2])
                 signature == atob(parts[3])
                 signed == parts[1] \o <<DotChar>> \o parts[2]
                 payload == parsePayload(body.bytes)
             IN  IF ~header.ok \/ header.bytes # HeaderJson THEN NoPayload
                 ELSE IF ~signature.ok
                         \/ signature.bytes # hmacSha256(key, signed)
                 THEN NoPayload
                 ELSE IF ~body.ok \/ payload.null THEN NoPayload
                 ELSE IF payload.exp <= nowMs \div MsPerSecond THEN NoPayload
                 ELSE payload

\* The instants (Date.now(), in milliseconds) at which tokens are generated
\* and verified: the first, second and last second of each day, at their
\* first and last millisecond.
Seconds ==
    {d * TokenLifetime + o : d \in 0..MaxDays, o \in {0, 1, TokenLifetime - 1}}
Instants ==
    {sec * MsPerSecond + ms : sec \in Seconds, ms \in {0, MsPerSecond - 1}}

\* The strings a caller may pass to verifyToken: the token last generated, the
\* empty string, and the token without its signature segment.
TokenKinds == {"issued", "empty", "unsigned"}

TokenOf(token, kind) ==
    CASE kind = "issued" -> token
      [] kind = "empty" -> <<>>
      [] OTHER -> LET parts == split(token)
                  IN  IF Len(parts) < 2 THEN token
                      ELSE parts[1] \o <<DotChar>> \o parts[2]

\* generateToken(username) is called.
GenerateToken(username) ==
    /\ issued' = [sub |-> username, at |-> now,
                  token |-> generateToken(username, secret, now), set |-> TRUE]
    /\ checked' = NoCheck
    /\ UNCHANGED <<credential, verification, secret, resilience, http>>

\* verifyToken(token) is called with a string of the given kind.
VerifyToken(kind) ==
    /\ issued.set
    /\ LET token == TokenOf(issued.token, kind)
       IN  checked' = [token |-> token, at |-> now,
                       payload |-> verifyToken(token, secret, now),
                       done |-> TRUE]
    /\ UNCHANGED <<credential, verification, secret, issued, resilience, http>>

\* Time passes, to the next instant.
TimePasses(t) ==
    /\ t > now
    /\ \A u \in Instants : u > now => t <= u
    /\ now' = t
    /\ checked' = NoCheck
    /\ UNCHANGED <<config, breaker, call, observed, credential, verification,
                   secret, issued, http>>

\* The token functions of an AuthService constructed with any of the secrets.
NextToken ==
    \/ \E username \in Subjects : GenerateToken(username)
    \/ \E kind \in TokenKinds : VerifyToken(kind)
    \/ \E t \in Instants : TimePasses(t)

SpecToken == AtRest /\ [][NextToken]_vars

\* ---------------------------------------------------------------------------
\* Tokens that verifyToken must refuse
\* ---------------------------------------------------------------------------

\* The secret of another service, which signs the tokens it issues itself.
ForeignSecret == <<108>>

\* JSON.stringify({ alg: 'none' })
NoneHeaderJson == <<123, 34, 97, 108, 103, 34, 58, 34, 110, 111, 110, 101, 34, 125>>

\* A segment with its i-th character replaced by the next character of the
\* base64url alphabet.
alter(segment, i) == [segment EXCEPT ![i] = (@ + 1) % 64]

\* [a, b, c].join('.')
RECURSIVE join(_)
join(parts) ==
    IF Len(parts) = 0 THEN <<>>
    ELSE IF Len(parts) = 1 THEN parts[1]
    ELSE parts[1] \o <<DotChar>> \o join(Tail(parts))

\* The strings a caller derives from a token it was issued and passes to
\* verifyToken: the token itself, the empty string, the token without its
\* signature, with a fourth part, with one character of its header, payload
\* or signature replaced, with a header that declares no algorithm and an
\* empty signature, and the token another service issues for the same user.
TamperKinds ==
    {"issued", "empty", "unsigned", "extraPart", "header", "payload",
     "signatureFirst", "signatureLast", "algNone", "foreignSecret"}

Tampered(token, kind) ==
    LET parts == split(token.token)
    IN  CASE kind = "issued" -> token.token
          [] kind = "empty" -> <<>>
          [] kind = "unsigned" -> join(<<parts[1], parts[2]>>)
          [] kind = "extraPart" -> join(parts \o <<parts[3]>>)
          [] kind = "header" -> join(<<alter(parts[1], 1), parts[2], parts[3]>>)
          [] kind = "payload" ->
                 join(<<parts[1], alter(parts[2], Len(parts[2])), parts[3]>>)
          [] kind = "signatureFirst" ->
                 join(<<parts[1], parts[2], alter(parts[3], 1)>>)
          [] kind = "signatureLast" ->
                 join(<<parts[1], parts[2], alter(parts[3], Len(parts[3]))>>)
          [] kind = "algNone" -> join(<<btoa(NoneHeaderJson), parts[2], <<>>>>)
          [] OTHER -> generateToken(token.sub, ForeignSecret, token.at)

\* verifyToken(token) is called with a string derived from the issued token.
VerifyTampered(kind) ==
    /\ issued.set
    /\ LET token == Tampered(issued, kind)
       IN  checked' = [token |-> token, at |-> now,
                       payload |-> verifyToken(token, secret, now),
                       done |-> TRUE]
    /\ UNCHANGED <<credential, verification, secret, issued, resilience, http>>

NextTamper ==
    \/ \E username \in Subjects : GenerateToken(username)
    \/ \E kind \in TamperKinds : VerifyTampered(kind)
    \/ \E t \in Instants : TimePasses(t)

InitTamper == AtRest /\ OneSecret

SpecTamper == InitTamper /\ [][NextTamper]_vars

\* ---------------------------------------------------------------------------
\* AuthService: validators and extractTokenFromHeader
\* ---------------------------------------------------------------------------

\* !value
falsy(value) ==
    \/ value.type \in {"null", "undefined"}
    \/ value.type = "string" /\ value.chars = <<>>
    \/ value.type = "number" /\ value.num = 0

\* typeof value
typeof(value) == IF value.type = "null" THEN "object" ELSE value.type

\* ErrorCode.INVALID_USERNAME, ErrorCode.INVALID_PASSWORD: strings
ErrorCode(code) == [JsString(<<>>) EXCEPT !.code = code]

\* /^[a-z0-9-]+$/.test(str): one or more characters, each a lowercase ASCII
\* letter, a digit or a hyphen, up to the end of the string.
UsernamePattern(str) ==
    /\ Len(str) >= 1
    /\ \A i \in 1..Len(str) : str[i] \in (97..122) \cup (48..57) \cup {45}

\* Mutant of validateUsername: the upper limit excludes length 50.
validateUsernameBelow50(username) ==
    IF falsy(username) \/ typeof(username) # "string"
    THEN ErrorCode("INVALID_USERNAME")
    ELSE IF Len(username.chars) < 3 \/ Len(username.chars) >= 50
    THEN ErrorCode("INVALID_USERNAME")
    ELSE IF ~UsernamePattern(username.chars) THEN ErrorCode("INVALID_USERNAME")
    ELSE JsNull

\* AuthService.validateUsername(username)
validateUsername(username) ==
    IF falsy(username) \/ typeof(username) # "string"
    THEN ErrorCode("INVALID_USERNAME")
    ELSE IF Len(username.chars) < 3 \/ Len(username.chars) > 50
    THEN ErrorCode("INVALID_USERNAME")
    ELSE IF ~UsernamePattern(username.chars) THEN ErrorCode("INVALID_USERNAME")
    ELSE JsNull

\* Mutant of validatePassword: the lower limit excludes length 8.
validatePasswordAbove8(password) ==
    IF falsy(password) \/ typeof(password) # "string"
    THEN ErrorCode("INVALID_PASSWORD")
    ELSE IF Len(password.chars) <= 8 \/ Len(password.chars) > 128
    THEN ErrorCode("INVALID_PASSWORD")
    ELSE JsNull

\* AuthService.validatePassword(password)
validatePassword(password) ==
    IF falsy(password) \/ typeof(password) # "string"
    THEN ErrorCode("INVALID_PASSWORD")
    ELSE IF Len(password.chars) < 8 \/ Len(password.chars) > 128
    THEN ErrorCode("INVALID_PASSWORD")
    ELSE JsNull

\* str.split(sep), for a separator of one character
RECURSIVE splitOn(_, _)
splitOn(str, sep) ==
    LET at == {i \in 1..Len(str) : str[i] = sep}
    IN  IF at = {} THEN <<str>>
        ELSE LET d == CHOOSE i \in at : \A j \in at : i <= j
             IN  <<SubSeq(str, 1, d - 1)>>
                     \o splitOn(SubSeq(str, d + 1, Len(str)), sep)

\* "Bearer", and the space
Bearer == <<66, 101, 97, 114, 101, 114>>
Space == 32

\* Mutant of extractTokenFromHeader: parts beyond the second are ignored.
extractTokenFromHeaderAtLeastTwo(authHeader) ==
    IF falsy(authHeader) THEN JsNull
    ELSE LET parts == splitOn(authHeader.chars, Space)
         IN  IF Len(parts) < 2 \/ parts[1] # Bearer THEN JsNull
             ELSE JsString(parts[2])

\* AuthService.extractTokenFromHeader(authHeader)
extractTokenFromHeader(authHeader) ==
    IF falsy(authHeader) THEN JsNull
    ELSE LET parts == splitOn(authHeader.chars, Space)
         IN  IF Len(parts) # 2 \/ parts[1] # Bearer THEN JsNull
             ELSE JsString(parts[2])

\* The string of n characters c, and a string with its i-th character
\* replaced.
Fill(c, n) == [i \in 1..n |-> c]
Put(str, i, c) == [str EXCEPT ![i] = c]

\* Values that are not strings: null, undefined, 0, 123 and ['a', 'b', 'c'].
NonStrings ==
    {JsNull, JsUndefined, JsNumber(0), JsNumber(123), JsArray(<<97, 98, 99>>)}

\* The characters usernames are made of: a z 0 9 - and, outside the class,
\* A _ space ` { / : line feed, e-acute and half of a surrogate pair.
UsernameChars ==
    {97, 122, 48, 57, 45, 65, 95, 32, 96, 123, 47, 58, 10, 233, 55357}

\* The usernames passed to validateUsername: every length up to MaxExcess
\* beyond the limit, filled with "a" or "-", with the first or the last
\* character replaced by each of the characters.
UsernameInputs ==
    NonStrings \cup {JsString(<<>>)}
        \cup {JsString(Put(Fill(f, n[1]), n[2], c)) :
                 f \in {97, 45}, c \in UsernameChars,
                 n \in {<<len, i>> \in (1..(50 + MaxExcess)) \X (1..(50 + MaxExcess)) :
                          i \in {1, len}}}

\* The characters passwords are made of: a, space, NUL, line feed and half of
\* a surrogate pair.
PasswordChars == {97, 32, 0, 10, 55357}

PasswordInputs ==
    NonStrings \cup {JsString(<<>>)}
        \cup {JsString(Put(Fill(97, n[1]), n[2], c)) :
                 c \in PasswordChars,
                 n \in {<<len, i>> \in (1..(128 + MaxExcess)) \X (1..(128 + MaxExcess)) :
                          i \in {1, len}}}

\* parts.join(sep)
RECURSIVE joinOn(_, _)
joinOn(parts, sep) ==
    IF Len(parts) = 0 THEN <<>>
    ELSE IF Len(parts) = 1 THEN parts[1]
    ELSE parts[1] \o <<sep>> \o joinOn(Tail(parts), sep)

\* The words headers are made of: "", "Bearer", "bearer", "Basic", "t", a tab,
\* and "t" followed by a tab; none contains a space.
Words ==
    {<<>>, Bearer, <<98, 101, 97, 114, 101, 114>>, <<66, 97, 115, 105, 99>>,
     <<116>>, <<9>>, <<116, 9>>}

\* The headers passed to extractTokenFromHeader: null, and up to MaxParts words
\* joined by single spaces (an empty word gives a leading, trailing or double
\* space).
HeaderInputs ==
    {JsNull} \cup {JsString(joinOn(ws, Space)) :
                      ws \in UNION {[1..n -> Words] : n \in 1..MaxParts}}

\* validateUsername(input) is called.
ValidateUsername(input) ==
    /\ validation = NoValidation
    /\ validation' = [fn |-> "validateUsername", input |-> input,
                      result |-> validateUsername(input)]
    /\ UNCHANGED <<authService, resilience, users, request>>

\* validatePassword(input) is called.
ValidatePassword(input) ==
    /\ validation = NoValidation
    /\ validation' = [fn |-> "validatePassword", input |-> input,
                      result |-> validatePassword(input)]
    /\ UNCHANGED <<authService, resilience, users, request>>

\* extractTokenFromHeader(input) is called.
ExtractTokenFromHeader(input) ==
    /\ validation = NoValidation
    /\ validation' = [fn |-> "extractTokenFromHeader", input |-> input,
                      result |-> extractTokenFromHeader(input)]
    /\ UNCHANGED <<authService, resilience, users, request>>

NextHeader == \E input \in HeaderInputs : ExtractTokenFromHeader(input)

NextUsername == \E input \in UsernameInputs : ValidateUsername(input)

NextPasswordRule == \E input \in PasswordInputs : ValidatePassword(input)

InitValidate == AtRest /\ OneSecret

SpecHeader == InitValidate /\ [][NextHeader]_vars

SpecUsername == InitValidate /\ [][NextUsername]_vars

SpecPasswordRule == InitValidate /\ [][NextPasswordRule]_vars

\* ---------------------------------------------------------------------------
\* handleRegister and handleLogin
\* ---------------------------------------------------------------------------

\* new TextEncoder().encode(str): UTF-8, for strings without surrogates
RECURSIVE encode(_)
encode(chars) ==
    IF chars = <<>> THEN <<>>
    ELSE LET c == Head(chars)
         IN  (IF c < 128 THEN <<c>>
              ELSE IF c < 2048 THEN <<192 + (c \div 64), 128 + (c % 64)>>
              ELSE <<224 + (c \div 4096), 128 + ((c \div 64) % 64),
                     128 + (c % 64)>>)
                 \o encode(Tail(chars))

\* createErrorResponse(code, message, status)
createErrorResponse(code, message, status) ==
    [status |-> status, code |-> code, message |-> message, token |-> <<>>]

\* new Response(JSON.stringify({ success: true, data: { ..., token } }))
SuccessResponse(token) ==
    [status |-> 200, code |-> "", message |-> "", token |-> token]

\* What D1 does with a statement: it runs it ("run"), or it rejects it with an
\* error of its own ("error": the database is unreachable or overloaded) and
\* the table is as before.
D1Outcomes == {"run", "error"}

\* DatabaseService.getUserByUsername(username): the id of the row, 0 for null;
\* null also when D1 rejects the SELECT.
getUserByUsername(username, d1) ==
    IF d1 = "error" THEN 0
    ELSE IF \E i \in 1..Len(users) : users[i].username = username
    THEN CHOOSE i \in 1..Len(users) : users[i].username = username
    ELSE 0

\* Mutant of createUser: the table has no UNIQUE constraint on username.
createUserNoConstraint(username, passwordHash, password, d1) ==
    IF d1 = "error" THEN [result |-> "INTERNAL_ERROR", table |-> users]
    ELSE [result |-> "",
          table |-> Append(users, [username |-> username,
                                   password_hash |-> passwordHash,
                                   last_access |-> JsNull,
                                   password |-> password])]

\* DatabaseService.createUser(username, passwordHash): INSERT INTO users, which
\* fails on the UNIQUE constraint of username; the table after it, and for
\* the row "", USER_EXISTS when the constraint failed, or INTERNAL_ERROR when
\* D1 rejected the INSERT with another error or returned no row.
createUser(username, passwordHash, password, d1) ==
    IF d1 = "error" THEN [result |-> "INTERNAL_ERROR", table |-> users]
    ELSE IF \E i \in 1..Len(users) : users[i].username = username
    THEN [result |-> "USER_EXISTS", table |-> users]
    ELSE [result |-> "",
          table |-> Append(users, [username |-> username,
                                   password_hash |-> passwordHash,
                                   last_access |-> JsNull,
                                   password |-> password])]

\* DatabaseService.updateUserLastAccess(userId): last_access =
\* CURRENT_TIMESTAMP; when D1 rejects the UPDATE it returns false and the row
\* is as before. The table after it.
updateUserLastAccess(userId, d1) ==
    IF d1 = "error" THEN users
    ELSE [users EXCEPT ![userId].last_access = JsNumber(now)]

\* The usernames and passwords of request bodies: "abc", "abd" and the too
\* short "ab"; "aaaaaaaa", the same followed by NUL, "bbbbbbbb" and the too
\* short "aaaaaaa".
BodyUsernames == {<<97, 98, 99>>, <<97, 98, 100>>, <<97, 98>>}
BodyPasswords == {Fill(97, 8), Fill(97, 8) \o <<0>>, Fill(98, 8), Fill(97, 7)}

\* The bodies of requests: text that is not JSON, and { username, password }.
Bodies ==
    {NoBody} \cup {[ok |-> TRUE, username |-> JsString(u), password |-> JsString(p)] :
                     u \in BodyUsernames, p \in BodyPasswords}

\* The handler returns its response.
Respond(r, response) ==
    request' = [request EXCEPT ![r].pc = "done", ![r].response = response]

\* fetch(request, env, ctx) of src/src/index.ts: its first log statement reads
\* method and url, which are declared inside the try block that follows, so
\* it throws a ReferenceError before the try block; the promise rejects, no
\* handler is called and no response is returned.
Fetch(r) ==
    /\ request[r].pc = "idle"
    /\ request' = [request EXCEPT ![r].pc = "rejected", ![r].route = "fetch"]
    /\ UNCHANGED <<authService, resilience, validation, users>>

\* handleRegister(request), up to its first await on the database or on
\* hashPassword: request.json(), validateUsername, validatePassword.
HandleRegister(r, body) ==
    /\ request[r].pc = "idle"
    /\ LET usernameError == validateUsername(body.username)
           passwordError == validatePassword(body.password)
           received == [request[r] EXCEPT !.route = "register", !.body = body]
       IN  request' = [request EXCEPT ![r] =
               IF ~body.ok
               THEN [received EXCEPT !.pc = "done", !.response =
                        createErrorResponse("INVALID_REQUEST",
                                            "Invalid request format", 400)]
               ELSE IF usernameError # JsNull
               THEN [received EXCEPT !.pc = "done", !.response =
                        createErrorResponse(usernameError.code,
                                            "Invalid username format", 400)]
               ELSE IF passwordError # JsNull
               THEN [received EXCEPT !.pc = "done", !.response =
                        createErrorResponse(passwordError.code,
                                            "Invalid password format", 400)]
               ELSE [received EXCEPT !.pc = "hash"]]
    /\ UNCHANGED <<authService, resilience, validation, users>>

\* await authService.hashPassword(body.password) resolves, with the salt it
\* drew; dbService.createUser is called.
HashResolves(r, salt) ==
    /\ request[r].pc = "hash"
    /\ request' = [request EXCEPT
           ![r].pc = "insert",
           ![r].hash = hashPassword(encode(request[r].body.password.chars), salt)]
    /\ UNCHANGED <<authService, resilience, validation, users>>

\* await dbService.createUser(...) resolves: the INSERT has run, or D1 has
\* rejected it.
InsertResolves(r, d1) ==
    /\ request[r].pc = "insert"
    /\ LET created == createUser(request[r].body.username.chars, request[r].hash,
                                 request[r].body.password.chars, d1)
       IN  /\ users' = created.table
           /\ IF created.result # ""
              THEN Respond(r, createErrorResponse(
                       created.result,
                       IF created.result = "USER_EXISTS"
                       THEN "Username already exists" ELSE "Registration failed",
                       400))
              ELSE request' = [request EXCEPT ![r].pc = "token",
                                              ![r].user = Len(created.table)]
    /\ UNCHANGED <<authService, resilience, validation>>

\* await authService.generateToken(body.username) resolves, in handleRegister
\* and in handleLogin.
TokenResolves(r) ==
    /\ request[r].pc = "token"
    /\ Respond(r, SuccessResponse(
           generateToken(encode(request[r].body.username.chars), secret, now)))
    /\ UNCHANGED <<authService, resilience, validation, users>>

\* handleLogin(request), up to its await on getUserByUsername.
HandleLogin(r, body) ==
    /\ request[r].pc = "idle"
    /\ LET received == [request[r] EXCEPT !.route = "login", !.body = body]
       IN  request' = [request EXCEPT ![r] =
               IF ~body.ok
               THEN [received EXCEPT !.pc = "done", !.response =
                        createErrorResponse("INVALID_REQUEST",
                                            "Invalid request format", 400)]
               ELSE [received EXCEPT !.pc = "find"]]
    /\ UNCHANGED <<authService, resilience, validation, users>>

\* await dbService.getUserByUsername(body.username) resolves: the SELECT has
\* run, or D1 has rejected it; verifyPassword is called on the row's
\* password_hash.
FindResolves(r, d1) ==
    /\ request[r].pc = "find"
    /\ LET user == getUserByUsername(request[r].body.username.chars, d1)
       IN  IF user = 0
           THEN Respond(r, createErrorResponse("INVALID_CREDENTIALS",
                                               "Invalid credentials", 401))
           ELSE request' = [request EXCEPT
                    ![r].pc = "verify", ![r].user = user,
                    ![r].hash = users[user].password_hash]
    /\ UNCHANGED <<authService, resilience, validation, users>>

\* await authService.verifyPassword(body.password, user.password_hash)
\* resolves; on true, updateUserLastAccess is called.
VerifyResolves(r) ==
    /\ request[r].pc = "verify"
    /\ IF ~verifyPassword(encode(request[r].body.password.chars), request[r].hash)
       THEN Respond(r, createErrorResponse("INVALID_CREDENTIALS",
                                           "Invalid credentials", 401))
       ELSE request' = [request EXCEPT ![r].pc = "touch"]
    /\ UNCHANGED <<authService, resilience, validation, users>>

\* await dbService.updateUserLastAccess(user.id) resolves: the UPDATE has run,
\* or D1 has rejected it; handleLogin does not read the result.
TouchResolves(r, d1) ==
    /\ request[r].pc = "touch"
    /\ users' = updateUserLastAccess(request[r].user, d1)
    /\ request' = [request EXCEPT ![r].pc = "token"]
    /\ UNCHANGED <<authService, resilience, validation>>

\* Requests handled concurrently on one database. A request that arrives at
\* the fetch of src/src/index.ts is rejected there; one that arrives at the
\* fetch of the worker of src/unnamed/part_009, whose handleRegister and
\* handleLogin are the same text, is routed to its handler.
NextWeb ==
    \/ \E r \in Requests : Fetch(r)
    \/ \E r \in Requests, body \in Bodies : HandleRegister(r, body)
    \/ \E r \in Requests, salt \in Salts : HashResolves(r, salt)
    \/ \E r \in Requests, d1 \in D1Outcomes : InsertResolves(r, d1)
    \/ \E r \in Requests : TokenResolves(r)
    \/ \E r \in Requests, body \in Bodies : HandleLogin(r, body)
    \/ \E r \in Requests, d1 \in D1Outcomes : FindResolves(r, d1)
    \/ \E r \in Requests : VerifyResolves(r)
    \/ \E r \in Requests, d1 \in D1Outcomes : TouchResolves(r, d1)

InitWeb == AtRest /\ OneSecret

SpecWeb == InitWeb /\ [][NextWeb]_vars

\* ------------------------------------------------------------------ claims

\* Steps, as seen from the two states of a transition.
Starts(c) == call[c].pc = "idle" /\ call'[c] # call[c]
StartsOnBreaker(c) == Starts(c) /\ UsesBreaker(call'[c])
Ends(c) == call[c].pc # "idle" /\ call'[c].pc = "idle"
\* CircuitBreaker.execute resumes after its await and returns or throws
\* call'[c].outcome.
EndsOnBreaker(c) ==
    /\ UsesBreaker(call[c])
    /\ call[c].pc \in {"operation", "breaker"}
    /\ call'[c].pc \in {"caller", "idle"}
\* The call is in executeWithRetry's loop.
InLoop(r) == r.pc \in {"operation", "delay"}
Rejected(r) ==
    /\ r.pc \in {"caller", "idle"}
    /\ r.outcome = Thrown(CircuitOpenError)
    /\ r.invoked = 0
    /\ r.attempt = 0
    /\ r.waits = <<>>
Admitted(r) == r.pc = "operation" /\ r.invoked = 1

\* C1: from CLOSED with failureCount 0, fewer than failureThreshold consecutive
\* failed calls leave the breaker CLOSED, and the failureThreshold-th one of
\* them leaves it OPEN.
C1_TripsAtThreshold ==
    [][/\ (fromClosed' /\ streak' < failureThreshold) => state' = "CLOSED"
       /\ (fromClosed' /\ streak' # streak /\ streak' = failureThreshold)
              => state' = "OPEN"]_vars

C1_Witness ==
    /\ fromClosed
    /\ failureThreshold = 2
    /\ streak = 2
    /\ state = "OPEN"
    /\ \E c \in Callers : call[c].seen = "CLOSED" /\ call[c].failed > 0

\* C2: a call on the breaker (execute or executeEmailOperation) made while it
\* is OPEN and less than recoveryTimeout after the last failure throws the
\* circuit-open error without invoking the operation, retrying or waiting.
C2_FastFailWhileOpen ==
    [][\A c \in Callers :
         (/\ StartsOnBreaker(c)
          /\ state = "OPEN"
          /\ now - lastFailureTime < RecoveryTimeoutCfg)
         => Rejected(call'[c])]_vars

C2_Witness ==
    /\ state = "OPEN"
    /\ now - lastFailureTime < RecoveryTimeoutCfg
    /\ \E c \in Callers : call[c].kind = "email" /\ Rejected(call[c])

\* C3: a call made while the breaker is OPEN and at least recoveryTimeout after
\* the last failure is not rejected: the state becomes HALF_OPEN and the
\* operation is invoked.
C3_ProbeAfterRecoveryTimeout ==
    [][\A c \in Callers :
         (/\ StartsOnBreaker(c)
          /\ state = "OPEN"
          /\ now - lastFailureTime >= RecoveryTimeoutCfg)
         => (state' = "HALF_OPEN" /\ Admitted(call'[c]))]_vars

C3_Witness ==
    /\ state = "HALF_OPEN"
    /\ now - lastFailureTime = RecoveryTimeoutCfg
    /\ \E c \in probes : Admitted(call[c])

\* C4: a call that fails while the breaker is HALF_OPEN leaves it OPEN, with
\* failureCount one higher and lastFailureTimestamp the time of the failure.
C4_HalfOpenFailureReopens ==
    [][\A c \in Callers :
         (/\ EndsOnBreaker(c)
          /\ call'[c].outcome.type = "thrown"
          /\ state = "HALF_OPEN")
         => (/\ state' = "OPEN"
             /\ failures' = failures + 1
             /\ lastFailureTime' = now)]_vars

\* C5: a call that succeeds while the breaker is HALF_OPEN leaves it CLOSED
\* with failureCount 0, whatever successThreshold is.
C5_HalfOpenSuccessCloses ==
    [][\A c \in Callers :
         (/\ EndsOnBreaker(c)
          /\ call'[c].outcome.type = "returned"
          /\ state = "HALF_OPEN")
         => (state' = "CLOSED" /\ failures' = 0)]_vars

C5_Witness ==
    /\ successThreshold > 1
    /\ state = "CLOSED"
    /\ failures = 0
    /\ lastFailureTime > 0
    /\ \E c \in Callers :
         /\ call[c].pc = "idle"
         /\ call[c].seen = "HALF_OPEN"
         /\ call[c].outcome.type = "returned"

\* C6: while the call that moved the breaker from OPEN to HALF_OPEN awaits its
\* operation, no other call on the breaker invokes its operation.
C6_SingleProbe ==
    [][\A p \in probes, c \in Callers :
         (c # p /\ call[p].pc = "operation" /\ StartsOnBreaker(c))
         => call'[c].pc # "operation"]_vars

\* C7: a call that succeeds while the breaker is CLOSED leaves it CLOSED with
\* failureCount 0, and the breaker becomes OPEN only at the failureThreshold-th
\* or a later failure in a row.
C7_OnlyConsecutiveFailuresTrip ==
    [][/\ \A c \in Callers :
            (/\ EndsOnBreaker(c)
             /\ call'[c].outcome.type = "returned"
             /\ state = "CLOSED")
            => (state' = "CLOSED" /\ failures' = 0)
       /\ (state # "OPEN" /\ state' = "OPEN") => streak' >= failureThreshold
       /\ failures' = streak']_vars

C7_Witness ==
    /\ failureThreshold = 2
    /\ state = "CLOSED"
    /\ failures = 0
    /\ \E c, d \in Callers :
         /\ call[c].seen = "CLOSED" /\ call[c].outcome.type = "thrown"
         /\ call[d].seen = "CLOSED" /\ call[d].outcome.type = "returned"

\* C8: reset() leaves state CLOSED, failureCount 0 and lastFailureTimestamp 0
\* from any state, and a call made in that state invokes its operation.
C8_ResetCloses ==
    [][/\ Reset => (/\ state' = "CLOSED"
                    /\ failures' = 0
                    /\ lastFailureTime' = 0
                    /\ ~FastFail(state', lastFailureTime', now'))
       /\ \A c \in Callers :
            (/\ StartsOnBreaker(c)
             /\ state = "CLOSED" /\ failures = 0 /\ lastFailureTime = 0)
            => Admitted(call'[c])]_vars

C8_Witness ==
    /\ state = "CLOSED"
    /\ failures = 0
    /\ lastFailureTime = 0
    /\ \E c, d \in Callers :
         /\ Rejected(call[c])
         /\ UsesBreaker(call[d]) /\ Admitted(call[d])

\* C9: executeWithRetry with shouldRetry always true throws only after
\* maxRetries + 1 invocations, all failed, and throws the error of the last one.
C9_ExhaustsAfterMaxRetriesPlusOne ==
    \A c \in Callers :
        (call[c].kind = "retry" /\ call[c].policy = "always")
        => /\ call[c].invoked <= maxRetries + 1
           /\ (call[c].pc = "idle" /\ call[c].outcome.type = "thrown")
                  => /\ call[c].invoked = maxRetries + 1
                     /\ call[c].failed = maxRetries + 1
                     /\ call[c].outcome.error.seq = call[c].invoked

C9_Witness ==
    /\ maxRetries = 2
    /\ \E c \in Callers :
         /\ call[c].kind = "retry"
         /\ call[c].pc = "idle"
         /\ call[c].outcome.type = "thrown"
         /\ call[c].outcome.error.seq = 3

\* C10: a call of executeWithRetry whose operation fails retryably k <=
\* maxRetries times and then succeeds returns the value of invocation k + 1,
\* which is its last invocation; it gives up on retryable errors only after
\* more than maxRetries failures.
C10_ReturnsFirstSuccess ==
    \A c \in Callers :
        (call[c].kind \in {"retry", "email"} /\ call[c].pc = "idle")
        => /\ call[c].outcome.type = "returned"
                  => /\ call[c].failed <= maxRetries
                     /\ call[c].invoked = call[c].failed + 1
                     /\ call[c].outcome.value = call[c].invoked
           /\ (/\ call[c].outcome.type = "thrown"
               /\ call[c].invoked > 0
               /\ shouldRetry(call[c].policy, call[c].outcome.error))
                  => call[c].failed > maxRetries

C10_Witness ==
    /\ maxRetries = 2
    /\ \E c \in Callers :
         /\ call[c].kind = "retry"
         /\ call[c].pc = "idle"
         /\ call[c].failed = 2
         /\ call[c].outcome = Returned(3)

\* C11: when an invocation fails with an error for which shouldRetry returns
\* false, executeWithRetry rethrows that same error at once, however many
\* retries remain: a backoff wait or a further invocation only ever follows an
\* error that shouldRetry accepted, and the error thrown is that of the last
\* invocation, with no wait after it.
C11_FatalRethrownAtOnce ==
    \A c \in Callers :
        call[c].kind = "retry"
        => /\ (call[c].pc # "idle" /\ call[c].failed > 0)
                  => shouldRetry(call[c].policy, call[c].lastError)
           /\ (/\ call[c].pc = "idle"
               /\ call[c].outcome.type = "thrown"
               /\ ~shouldRetry(call[c].policy, call[c].outcome.error))
                  => /\ call[c].outcome.error.seq = call[c].invoked
                     /\ call[c].failed = call[c].invoked
                     /\ Len(call[c].waits) = call[c].invoked - 1

C11_Witness ==
    /\ maxRetries = 2
    /\ \E c \in Callers :
         /\ call[c].kind = "retry"
         /\ call[c].policy = "retryService"
         /\ call[c].pc = "idle"
         /\ call[c].invoked = 1
         /\ call[c].waits = <<>>
         /\ call[c].outcome.type = "thrown"
         /\ call[c].outcome.error.seq = 1
         /\ ~shouldRetry(call[c].policy, call[c].outcome.error)

\* C12: the wait after the failed attempt with 0-based index n is
\* min(baseDelay * backoffMultiplier^n, maxDelay), so the first wait is
\* min(baseDelay, maxDelay); the waits of a call are non-decreasing and none
\* exceeds maxDelay.
C12_BackoffDelays ==
    \A c \in Callers :
        /\ call[c].pc = "delay" => Len(call[c].waits) = call[c].failed
        /\ \A i \in 1..Len(call[c].waits) :
              LET w == call[c].waits[i]
                  uncapped == baseDelay * Pow(backoffMultiplier, i - 1)
              IN  /\ w = uncapped \/ w = maxDelay
                  /\ w <= uncapped
                  /\ w <= maxDelay
                  /\ i > 1 => call[c].waits[i - 1] <= w

C12_Witness ==
    /\ baseDelay = 2
    /\ backoffMultiplier = 2
    /\ maxDelay = 3
    /\ \E c \in Callers : call[c].failed = 2 /\ call[c].waits = <<2, 3>>

\* C13: the breaker observes one outcome per executeEmailOperation call: a
\* call that ends by throwing after invoking its operation raises failureCount
\* by exactly 1, a call in which an attempt succeeds resets it to 0, and the
\* failed attempts inside the retry loop leave the breaker's state alone.
C13_OneOutcomePerCall ==
    [][\A c \in Callers :
         call[c].kind = "email"
         => /\ (call[c].pc # "idle" /\ call'[c] # call[c] /\ ~EndsOnBreaker(c))
                   => UNCHANGED breaker
            /\ (EndsOnBreaker(c) /\ call'[c].outcome.type = "thrown")
                   => failures' = failures + 1
            /\ (EndsOnBreaker(c) /\ call'[c].outcome.type = "returned")
                   => failures' = 0]_vars

C13_Witness ==
    /\ maxRetries = 2
    /\ failures = 1
    /\ \E c \in Callers :
         /\ call[c].kind = "email"
         /\ call[c].pc = "idle"
         /\ call[c].outcome.type = "thrown"
         /\ call[c].failed = 3
         /\ Len(call[c].waits) = 2

\* C14: executeEmailOperation treats an error carrying the explicit flag
\* retryable = true as retryable even when it matches no other criterion: a
\* call gives up on such an error only after more than maxRetries failures.
C14_RetryableFlagRetried ==
    \A c \in Callers :
        (/\ call[c].kind = "email"
         /\ call[c].pc = "idle"
         /\ call[c].outcome.type = "thrown"
         /\ call[c].invoked > 0
         /\ call[c].outcome.error.retryable = TRUE)
        => call[c].failed > maxRetries

\* The criteria of a retryable error: a network or timeout error name, a
\* message with a rate-limit or transient-failure marker, a status of 500 or
\* more, or the explicit retryable flag.
MatchesRetryableCriterion(error) ==
    \/ error.name \in {"NetworkError", "TimeoutError"}
    \/ error.message \cap {"rate limit", "rate_limit_exceeded",
                           "temporary_failure", "server_error", "timeout",
                           "connection"} # {}
    \/ error.status >= 500
    \/ error.retryable

\* C15: an error that matches none of the retryable criteria is fatal for
\* executeEmailOperation: no wait or further invocation follows it, so an
\* operation that throws it at once is invoked exactly once, and the call
\* throws that error.
C15_FatalNotRetried ==
    \A c \in Callers :
        call[c].kind = "email"
        => /\ (InLoop(call[c]) /\ call[c].failed > 0)
                  => MatchesRetryableCriterion(call[c].lastError)
           /\ (/\ call[c].pc = "idle"
               /\ call[c].outcome.type = "thrown"
               /\ call[c].invoked > 0
               /\ ~MatchesRetryableCriterion(call[c].outcome.error))
                  => /\ call[c].outcome.error.seq = call[c].invoked
                     /\ call[c].failed = call[c].invoked
                     /\ Len(call[c].waits) = call[c].invoked - 1

C15_Witness ==
    /\ maxRetries = 2
    /\ \E c \in Callers :
         /\ call[c].kind = "email"
         /\ call[c].pc = "idle"
         /\ call[c].invoked = 1
         /\ call[c].waits = <<>>
         /\ call[c].outcome.type = "thrown"
         /\ call[c].outcome.error.seq = 1
         /\ call[c].outcome.error.status = 429
         /\ ~MatchesRetryableCriterion(call[c].outcome.error)

\* C16: no exception crosses the outer boundary of a send. Whenever the
\* resilient send throws, EmailHandler.sendEmail returns the structured result
\* { success: false, error: the error's message, retryable: false }, and
\* RetryService.executeEmailOperationWithRetry returns the same when its
\* retries end in an error; otherwise they return the operation's result.
C16_SendNeverThrows ==
    \A c \in Callers :
        (Catches(call[c]) /\ call[c].pc = "idle")
        => /\ call[c].outcome.type = "returned"
           /\ call[c].failed = call[c].invoked <=> call[c].caught # NoError
           /\ call[c].caught # NoError
                  => /\ call[c].outcome.value = 0
                     /\ call[c].outcome.error.message = call[c].caught.message
                     /\ call[c].outcome.error.retryable = FALSE
           /\ call[c].caught = NoError
                  => call[c].outcome = Returned(call[c].invoked)

C16_Witness ==
    /\ maxRetries = 2
    /\ \E c, d \in Callers :
         /\ call[c].kind = "sendEmail"
         /\ call[c].pc = "idle"
         /\ call[c].caught.retryable = TRUE
         /\ call[c].outcome = FailureResult(call[c].caught.message)
         /\ call[d].kind = "emailWithRetry"
         /\ call[d].pc = "idle"
         /\ call[d].failed = 3
         /\ call[d].caught.name = "NetworkError"
         /\ call[d].outcome = FailureResult({})

\* C17: with several calls in flight on one breaker no failure increment is
\* lost: every call that ends in failure raises failureCount by exactly 1
\* whatever the other calls are doing, so failureCount is the number of failed
\* completions since it was last set to 0.
C17_NoLostFailure ==
    [][/\ \A c \in Callers :
            (/\ EndsOnBreaker(c)
             /\ call'[c].outcome.type = "thrown"
             /\ \E d \in Callers \ {c} : call[d].pc # "idle")
            => (failures' = failures + 1 /\ streak' = streak + 1)
       /\ failures = streak
       /\ failures' = 0 \/ failures' = failures \/ failures' = failures + 1]_vars

\* A second failure completed while a call that had already failed an attempt
\* was still in flight.
C17_Witness ==
    /\ failures = 2
    /\ \E c, d \in Callers :
         /\ call[c].pc = "delay"
         /\ call[c].wakeAt - call[c].waits[Len(call[c].waits)] < lastFailureTime
         /\ call[d].pc = "idle"
         /\ call[d].outcome.type = "thrown"
         /\ call[d].failed > 0

\* C18: every executeWithRetry and executeEmailOperation call terminates,
\* provided each invocation and each backoff wait completes: a call makes at
\* most maxRetries + 1 invocations and maxRetries waits, and a call in flight
\* eventually returns or throws.
C18_CallsTerminate ==
    /\ [](\A c \in Callers :
             /\ call[c].invoked <= maxRetries + 1
             /\ Len(call[c].waits) <= maxRetries)
    /\ \A c \in Callers : (call[c].pc # "idle") ~> (call[c].pc = "idle")

C18_Witness ==
    /\ maxRetries = 2
    /\ now > MaxTime
    /\ \E c \in Callers :
         /\ call[c].kind = "email"
         /\ call[c].pc = "idle"
         /\ call[c].outcome.type = "thrown"
         /\ call[c].failed = 3
         /\ Len(call[c].waits) = 2

\* A well-formed hash decodes to a 16-byte salt followed by a 32-byte key.
WellFormedHash(h) == atob(h).ok /\ Len(atob(h).bytes) = SaltBytes + KeyBytes

\* C19: verifyPassword(q, h) is true exactly when h is a well-formed hash
\* whose stored key equals the key derived from q with h's own salt: true for
\* h = hashPassword(q), false for h = hashPassword(p) with p # q, and false
\* for an empty, non-base64 or wrong-length h.
C19_VerifyPassword ==
    verification.done
    => LET q == verification.password
           h == verification.hash
           bytes == atob(h).bytes
       IN  /\ verification.result
                  <=> /\ WellFormedHash(h)
                      /\ sliceFrom(bytes, SaltBytes)
                            = pbkdf2(q, sliceTo(bytes, SaltBytes))
           /\ h = credential.hash
                  => (verification.result <=> q = credential.password)
           /\ ~WellFormedHash(h) => ~verification.result

\* C20: a token issued by generateToken(s) at time t (in seconds) carries
\* sub = s, iat = t and exp = t + 86400, and verifyToken with the same secret
\* returns a payload with sub = s at any time before exp.
C20_TokenRoundTrip ==
    issued.set
    => LET t == issued.at \div MsPerSecond
           carried == parsePayload(atob(split(issued.token)[2]).bytes)
       IN  /\ Len(split(issued.token)) = 3
           /\ carried = [sub |-> issued.sub, iat |-> t, exp |-> t + 86400,
                         null |-> FALSE]
           /\ (/\ checked.done
               /\ checked.token = issued.token
               /\ checked.at \div MsPerSecond < t + 86400)
                  => (~checked.payload.null /\ checked.payload.sub = issued.sub)

C20_Witness ==
    /\ issued.set
    /\ 34 \in {issued.sub[i] : i \in 1..Len(issued.sub)}
    /\ checked.done
    /\ checked.token = issued.token
    /\ checked.at \div MsPerSecond = (issued.at \div MsPerSecond) + 86399
    /\ checked.payload.sub = issued.sub
    /\ ~checked.payload.null

\* C21: verifyToken returns null for every string other than a token the
\* service issued and that has not reached its exp: malformed strings, tokens
\* with an altered header, payload or signature segment, tokens declaring
\* another algorithm, tokens signed with another secret, and expired tokens.
C21_TamperedRejected ==
    (issued.set /\ checked.done)
    => LET exp == (issued.at \div MsPerSecond) + TokenLifetime
       IN  (checked.token # issued.token \/ checked.at \div MsPerSecond >= exp)
               => checked.payload.null

\* C22: extractTokenFromHeader returns the text after "Bearer " exactly when
\* the header is "Bearer", one space, and a text without a space (the header
\* split on single spaces has two parts, the first being "Bearer"); every
\* other header gives null: a missing header, another scheme, extra parts, a
\* leading or trailing space, a bare "Bearer". "Bearer " gives "".
C22_ExtractBearer ==
    validation.fn = "extractTokenFromHeader"
    => LET h == validation.input
           n == Len(h.chars)
           twoParts ==
               /\ h.type = "string"
               /\ n >= 7
               /\ SubSeq(h.chars, 1, 6) = <<66, 101, 97, 114, 101, 114>>
               /\ h.chars[7] = 32
               /\ \A i \in 8..n : h.chars[i] # 32
       IN  /\ twoParts => validation.result = JsString(SubSeq(h.chars, 8, n))
           /\ ~twoParts => validation.result = JsNull
           /\ h = JsNull => validation.result = JsNull
           /\ h = JsString(<<66, 101, 97, 114, 101, 114>>)
                  => validation.result = JsNull
           /\ h = JsString(<<66, 101, 97, 114, 101, 114, 32>>)
                  => validation.result = JsString(<<>>)
           /\ (h.type = "string" /\ n >= 1 /\ h.chars[1] = 32)
                  => validation.result = JsNull
           /\ (h.type = "string" /\ n >= 8 /\ h.chars[n] = 32)
                  => validation.result = JsNull

C22_Witness ==
    /\ validation.fn = "extractTokenFromHeader"
    /\ validation.input = JsString(<<66, 101, 97, 114, 101, 114, 32, 116, 9>>)
    /\ validation.result = JsString(<<116, 9>>)

\* C23: validateUsername returns null exactly when its argument is a string
\* of 3 to 50 characters, each of them in a-z, 0-9 or "-"; for every other
\* argument it returns INVALID_USERNAME.
C23_ValidateUsername ==
    validation.fn = "validateUsername"
    => LET s == validation.input
           valid ==
               /\ s.type = "string"
               /\ Len(s.chars) >= 3
               /\ Len(s.chars) <= 50
               /\ \A i \in 1..Len(s.chars) :
                      \/ s.chars[i] >= 97 /\ s.chars[i] <= 122
                      \/ s.chars[i] >= 48 /\ s.chars[i] <= 57
                      \/ s.chars[i] = 45
       IN  /\ valid => validation.result = JsNull
           /\ ~valid => validation.result = ErrorCode("INVALID_USERNAME")

C23_Witness ==
    /\ validation.fn = "validateUsername"
    /\ validation.input.type = "string"
    /\ Len(validation.input.chars) = 50
    /\ validation.input.chars[50] = 45
    /\ validation.result = JsNull

\* C24: validatePassword returns null exactly when its argument is a string
\* of 8 to 128 characters, whatever the characters; for every other argument
\* it returns INVALID_PASSWORD.
C24_ValidatePassword ==
    validation.fn = "validatePassword"
    => LET s == validation.input
           valid ==
               /\ s.type = "string"
               /\ Len(s.chars) >= 8
               /\ Len(s.chars) <= 128
       IN  /\ valid => validation.result = JsNull
           /\ ~valid => validation.result = ErrorCode("INVALID_PASSWORD")

C24_Witness ==
    /\ validation.fn = "validatePassword"
    /\ validation.input.type = "string"
    /\ Len(validation.input.chars) = 8
    /\ validation.input.chars[8] = 0
    /\ validation.result = JsNull

\* C26: whenever the breaker is OPEN its failureCount is at least
\* failureThreshold, however the execute calls that share it interleave: a
\* call admitted while CLOSED that succeeds after the breaker has tripped does
\* not leave it OPEN with failureCount 0.
C26_OpenKeepsFailureCount ==
    state = "OPEN" => failures >= failureThreshold

\* C27: within a call of executeWithRetry attempts and waits alternate: an
\* attempt in flight follows as many failed attempts as completed waits, a
\* wait follows a failed attempt for which shouldRetry was called, the next
\* attempt starts only once the wait is over, and a call that throws made no
\* wait after its last failed attempt; a call that exhausts its retries with
\* N failed invocations made N - 1 waits and N - 1 calls of shouldRetry.
C27_AttemptsAndWaitsAlternate ==
    /\ [](\A c \in Callers :
            call[c].kind = "retry"
            => /\ call[c].pc = "operation"
                      => /\ call[c].failed = call[c].invoked - 1
                         /\ Len(call[c].waits) = call[c].invoked - 1
                         /\ call[c].asked = call[c].invoked - 1
               /\ call[c].pc = "delay"
                      => /\ call[c].failed = call[c].invoked
                         /\ Len(call[c].waits) = call[c].invoked
                         /\ call[c].asked = call[c].invoked
               /\ (call[c].pc = "idle" /\ call[c].outcome.type = "thrown")
                      => /\ call[c].failed = call[c].invoked
                         /\ Len(call[c].waits) = call[c].failed - 1
               /\ (/\ call[c].pc = "idle"
                   /\ call[c].outcome.type = "thrown"
                   /\ call[c].failed = maxRetries + 1)
                      => /\ Len(call[c].waits) = maxRetries
                         /\ call[c].asked = maxRetries)
    /\ [][\A c \in Callers :
            /\ (call[c].pc = "delay" /\ call'[c].pc = "operation")
                   => /\ now >= call[c].wakeAt
                      /\ call'[c].invoked = call[c].invoked + 1
            /\ (call[c].pc = "operation" /\ call'[c].pc = "delay")
                   => /\ call'[c].wakeAt
                             = now + call'[c].waits[Len(call'[c].waits)]
                      /\ call'[c].invoked = call[c].invoked
            /\ (call[c].pc = "operation" /\ call'[c] # call[c])
                   => call'[c].pc # "operation"]_vars

C27_Witness ==
    /\ maxRetries = 2
    /\ \E c \in Callers :
         /\ call[c].kind = "retry"
         /\ call[c].policy = "retryService"
         /\ call[c].pc = "idle"
         /\ call[c].outcome.type = "thrown"
         /\ call[c].failed = 3
         /\ Len(call[c].waits) = 2
         /\ call[c].asked = 2
         /\ ~shouldRetry(call[c].policy, call[c].outcome.error)

\* C28: a call rejected while the breaker is OPEN leaves state, failureCount
\* and lastFailureTimestamp unchanged; lastFailureTimestamp changes only when
\* a call whose operation was invoked fails (or on reset), so a call that
\* arrives recoveryTimeout after that failure is admitted as the probe,
\* whatever calls were rejected in between.
C28_RejectionLeavesBreaker ==
    [][/\ \A c \in Callers :
            (StartsOnBreaker(c) /\ Rejected(call'[c])) => UNCHANGED breaker
       /\ lastFailureTime' # lastFailureTime
              => \/ \E c \in Callers :
                       /\ EndsOnBreaker(c)
                       /\ call'[c].outcome.type = "thrown"
                       /\ call'[c].invoked > 0
                       /\ lastFailureTime' = now
                 \/ <<state', failures', lastFailureTime'>> = <<"CLOSED", 0, 0>>
       /\ \A c \in Callers :
            (/\ StartsOnBreaker(c)
             /\ state = "OPEN"
             /\ now - lastFailureTime >= RecoveryTimeoutCfg)
            => (state' = "HALF_OPEN" /\ Admitted(call'[c]) /\ c \in probes')]_vars

C28_Witness ==
    /\ state = "HALF_OPEN"
    /\ lastFailureTime = 1
    /\ now = 1 + RecoveryTimeoutCfg
    /\ \E c \in probes, d \in Callers :
         /\ Admitted(call[c])
         /\ call[c].kind = "execute"
         /\ d # c
         /\ call[d].kind = "execute"
         /\ Rejected(call[d])

\* C29: an executeEmailOperation call that throws after invoking its
\* operation is recorded by the breaker in the same way whether its error was
\* fatal or its retries were exhausted: failureCount rises by 1,
\* lastFailureTimestamp is the time of the failure and the breaker is OPEN if
\* failureCount has reached failureThreshold; failureThreshold such calls in a
\* row open a CLOSED breaker, and calls made while it is OPEN and less than
\* recoveryTimeout after the last failure are rejected.
C29_FatalCountsAsFailure ==
    [][/\ \A c \in Callers :
            (/\ EndsOnBreaker(c)
             /\ call[c].kind = "email"
             /\ call'[c].outcome.type = "thrown")
            => /\ failures' = failures + 1
               /\ lastFailureTime' = now
               /\ state' = IF failures + 1 >= failureThreshold THEN "OPEN"
                           ELSE state
               /\ streak' = streak + 1
               /\ call'[c].failed <= maxRetries
                      => ~isEmailRetryableError(call'[c].outcome.error)
       /\ (fromClosed' /\ streak' # streak /\ streak' >= failureThreshold)
              => state' = "OPEN"
       /\ \A c \in Callers :
            (/\ Starts(c)
             /\ call'[c].kind = "email"
             /\ state = "OPEN"
             /\ now - lastFailureTime < RecoveryTimeoutCfg)
            => Rejected(call'[c])]_vars

C29_Witness ==
    /\ maxRetries = 2
    /\ failureThreshold = 2
    /\ state = "OPEN"
    /\ failures = 2
    /\ streak = 2
    /\ fromClosed
    /\ now - lastFailureTime < RecoveryTimeoutCfg
    /\ \E c, d \in Callers :
         /\ call[c].kind = "email"
         /\ Rejected(call[c])
         /\ call[d].kind = "email"
         /\ call[d].pc = "idle"
         /\ call[d].outcome.type = "thrown"
         /\ call[d].invoked = 1
         /\ call[d].waits = <<>>
         /\ ~isEmailRetryableError(call[d].outcome.error)

\* C25: handleLogin answers an unknown username and a known username with a
\* password other than the registered one with the same response, status 401,
\* code INVALID_CREDENTIALS, message 'Invalid credentials', without a token,
\* and the step that refuses the login leaves the users table (last_access
\* included) unchanged.
C25_UniformLoginFailure ==
    [][\A r \in Requests :
         (request[r].route = "login" /\ request'[r] # request[r])
         => LET refused ==
                    /\ request'[r].pc = "done"
                    /\ request'[r].response =
                           [status |-> 401, code |-> "INVALID_CREDENTIALS",
                            message |-> "Invalid credentials", token |-> <<>>]
                    /\ users' = users
            IN  /\ (/\ request[r].pc = "find"
                    /\ \A i \in 1..Len(users) :
                          users[i].username # request[r].body.username.chars)
                       => refused
                /\ (/\ request[r].pc = "verify"
                    /\ users[request[r].user].password
                           # request[r].body.password.chars)
                       => refused]_vars

\* C30 as stated: of two register requests for the same valid username, with
\* valid passwords, that have both been answered, when one received a token
\* the other got USER_EXISTS with no token.
C30_OtherGetsUserExists ==
    \A r, q \in Requests :
        (/\ r # q
         /\ request[r].route = "register"
         /\ request[q].route = "register"
         /\ request[r].pc = "done"
         /\ request[q].pc = "done"
         /\ request[r].body.username = request[q].body.username
         /\ request[r].response.status = 200
         /\ request[q].body.ok
         /\ validateUsername(request[q].body.username) = JsNull
         /\ validatePassword(request[q].body.password) = JsNull)
        => /\ request[q].response.code = "USER_EXISTS"
           /\ request[q].response.token = <<>>

\* C30: however register requests interleave, the users table holds at most
\* one row per username and a row's username and password hash never change;
\* of the requests that register the same valid username with valid passwords
\* at most one gets a token, for the row that holds its hash, and each of the
\* others gets, without a token and without a row, USER_EXISTS when its
\* INSERT found the username's row, or INTERNAL_ERROR 'Registration failed'
\* when the database rejected its INSERT for another reason; a request whose
\* body, username or password is invalid gets an error without a token and no
\* row is stored for it.
C30_OneAccountPerUsername ==
    /\ [](/\ \A i, j \in 1..Len(users) :
                i # j => users[i].username # users[j].username
          /\ \A i \in 1..Len(users) :
                /\ validateUsername(JsString(users[i].username)) = JsNull
                /\ validatePassword(JsString(users[i].password)) = JsNull
                /\ \E r \in Requests :
                      /\ request[r].route = "register"
                      /\ request[r].user = i
                      /\ request[r].hash = users[i].password_hash
                      /\ request[r].body.username.chars = users[i].username
          /\ \A r \in Requests :
                (request[r].route = "register" /\ request[r].pc = "done")
                => LET valid ==
                           /\ request[r].body.ok
                           /\ validateUsername(request[r].body.username) = JsNull
                           /\ validatePassword(request[r].body.password) = JsNull
                   IN  /\ ~valid
                              => /\ request[r].response.status = 400
                                 /\ request[r].response.code \in
                                        {"INVALID_REQUEST", "INVALID_USERNAME",
                                         "INVALID_PASSWORD"}
                                 /\ request[r].response.token = <<>>
                                 /\ request[r].user = 0
                       /\ valid
                              => \/ /\ request[r].response.status = 200
                                    /\ request[r].response.token # <<>>
                                    /\ request[r].user # 0
                                 \/ /\ request[r].response.status = 400
                                    /\ request[r].response.code = "USER_EXISTS"
                                    /\ request[r].response.message
                                           = "Username already exists"
                                    /\ request[r].response.token = <<>>
                                    /\ request[r].user = 0
                                    /\ \E i \in 1..Len(users) :
                                          users[i].username
                                              = request[r].body.username.chars
                                 \/ /\ request[r].response.status = 400
                                    /\ request[r].response.code = "INTERNAL_ERROR"
                                    /\ request[r].response.message
                                           = "Registration failed"
                                    /\ request[r].response.token = <<>>
                                    /\ request[r].user = 0
          /\ \A r, q \in Requests :
                (/\ r # q
                 /\ request[r].route = "register"
                 /\ request[q].route = "register"
                 /\ request[r].body.username = request[q].body.username
                 /\ request[r].response.status = 200)
                => request[q].response.status # 200)
    /\ [][/\ Len(users') >= Len(users)
          /\ \A i \in 1..Len(users) :
                /\ users'[i].username = users[i].username
                /\ users'[i].password_hash = users[i].password_hash
          /\ \A r \in Requests :
                (request[r].pc = "insert" /\ request'[r].pc = "done")
                => /\ users' = users
                   /\ request'[r].response.code = "USER_EXISTS"
                          => \E i \in 1..Len(users) :
                                users[i].username
                                    = request[r].body.username.chars]_vars

C30_Witness ==
    /\ Len(users) = 1
    /\ \E r, q \in Requests :
         /\ request[r].route = "register"
         /\ request[q].route = "register"
         /\ request[r].body.username = request[q].body.username
         /\ request[r].body.password # request[q].body.password
         /\ request[r].pc = "done"
         /\ request[r].response.status = 200
         /\ request[r].response.token # <<>>
         /\ users[1].password_hash = request[r].hash
         /\ request[q].pc = "done"
         /\ request[q].response.code = "USER_EXISTS"
         /\ request[q].response.token = <<>>
         /\ request[q].hash # <<>>
         /\ request[q].hash # users[1].password_hash

====
